---- MODULE Spec2Model ----
(***************************************************************************)
(* Verification model of matrix-discovery: the extended prefix automaton   *)
(* (src/src/epa.rs), the dependency-matrix builder and its metrics         *)
(* (src/src/lib.rs) and the dependency-set evaluator                       *)
(* (src/src/evaluation.rs).                                                *)
(*                                                                         *)
(* Each component is a state machine of its own (SpecEpa, SpecMatrix,      *)
(* SpecEval); while one runs, the variables of the others keep their idle  *)
(* values.                                                                 *)
(***************************************************************************)
EXTENDS Integers, Sequences, FiniteSets, TLC

VARIABLES
    \* ExtendedPrefixAutomaton::build
    plain_log,      \* the Vec<Vec<Event>> handed to build
    pos,            \* number of events of plain_log (in loop order) processed
    epa,            \* the automaton: states, transitions, activities, root
    last_at,        \* build's local HashMap<String, String>: case -> state id
    \* the classification oracle (check_temporal_dependency,
    \* check_existential_dependency) the run is made with
    oracle,
    calls,          \* how often each classifier was called with each (from, to)
    \* generate_adj_matrix_from_activities_and_traces
    m_pc,               \* "idle", "start", "loop", "done"
    m_activities,       \* the &HashSet<String> argument
    activities_sorted,  \* the sorted Vec of the activities
    from_idx,           \* position of the outer loop (rows completed)
    to_idx,             \* position of the inner loop (cells of the row completed)
    metrics,            \* MatrixMetrics
    output,             \* the cells written so far, row by row
    \* evaluate_deps
    e_pc,               \* "idle", "start", "collect", "sort", "dedup", "score",
                        \* "done", "rendered", "panicked"
    e_activities,       \* the HashSet of the activities of the log
    deps,               \* the hypothesis dependencies (the &[Dependency] argument)
    adj_matrix,         \* the Vec of all ordered pairs' dependencies
    seen,               \* the HashSet of kept pairs
    adj_matrix_sorted,  \* the canonical list
    dep_idx,            \* hypotheses scored so far
    correct_temporal,
    correct_existential,
    result,             \* the returned tuple, once returned
    rendered,           \* relation_form: the percentages shown for the result
    \* convert_to_dependencies
    c_pc,               \* "idle", "loop", "done", "panicked"
    c_text,             \* the &str argument
    c_idx,              \* lines of the text consumed so far
    c_deps,             \* the Vec of decoded dependencies
    c_failure,          \* how the call of from_str ended that ended the run
    c_shown,            \* the decoded dependencies as Display writes them
    \* App (bin/entrypoint.rs)
    app_pc,             \* "idle", "running", "panicked"
    state,              \* AppState: text, processed and the two thresholds
    file_reader_closure,\* the onload closure of the file read in flight
    generated,          \* history: what the last ConvertToXES put into state.text
    downloaded          \* history: the text of the last download that took place

epa_vars == <<plain_log, pos, epa, last_at>>
matrix_vars == <<m_pc, m_activities, activities_sorted, from_idx, to_idx, metrics, output>>
eval_vars == <<e_pc, e_activities, deps, adj_matrix, seen, adj_matrix_sorted, dep_idx,
               correct_temporal, correct_existential, result, rendered>>
codec_vars == <<c_pc, c_text, c_idx, c_deps, c_failure, c_shown>>
app_vars == <<app_pc, state, file_reader_closure, generated, downloaded>>
vars == <<epa_vars, oracle, calls, matrix_vars, eval_vars, codec_vars, app_vars>>

----------------------------------------------------------------------------
(* Option<T>: None is the empty sequence, Some(x) the one-element sequence. *)
None == <<>>
Some(x) == <<x>>
IsSome(o) == Len(o) = 1
Unwrap(o) == o[1]
UnwrapOr(o, d) == IF IsSome(o) THEN o[1] ELSE d

SetMax(S) == CHOOSE m \in S : \A x \in S : x <= m

RECURSIVE Flatten(_)
Flatten(ss) == IF ss = <<>> THEN <<>> ELSE Head(ss) \o Flatten(Tail(ss))

RECURSIVE SeqsUpTo(_, _)
SeqsUpTo(S, n) ==
    IF n = 0 THEN {<<>>}
    ELSE LET shorter == SeqsUpTo(S, n - 1)
         IN  shorter \cup {Append(s, x) : s \in {t \in shorter : Len(t) = n - 1}, x \in S}

----------------------------------------------------------------------------
(* Bounds of the prefix-automaton inputs: the parsed logs are all logs of   *)
(* at most MaxTraces traces of at most MaxTraceLen labels, together with    *)
(* the scenario log; the hand-made event lists are all lists of at most     *)
(* MaxRawEvents events whose case and predecessor are any of two cases.     *)
MaxTraces == 2          \* traces of a parsed log
MaxTraceLen == 2        \* activities of one trace
MaxRawEvents == 3       \* events of a hand-made event list

(* Activity labels are strings; a label is modelled as the sequence of its  *)
(* characters, a character as its rank in the alphabet (A = 1, B = 2, ...). *)
LabelA == <<1>>
LabelB == <<2>>
LabelC == <<3>>
EpaLabels == {LabelA, LabelB}           \* the labels of the enumerated logs

(* activity.chars().next().unwrap() *)
FirstChar(label) == Head(label)

(* format!("case_{}", case_idx): case names are modelled by their index + 1, *)
(* so that distinct indices give distinct names.                            *)
CaseName(case_idx) == case_idx + 1

(* The Event struct.  predecessor is an Option<String> holding a case name. *)
Event(case, activity, predecessor) ==
    [case |-> case, activity |-> activity, predecessor |-> predecessor]

(* App::process_xes_content turns the parsed traces into the plain log.     *)
PlainLogOf(traces) ==
    [case_idx1 \in 1..Len(traces) |->
        [event_idx1 \in 1..Len(traces[case_idx1]) |->
            Event(CaseName(case_idx1 - 1),
                  FirstChar(traces[case_idx1][event_idx1]),
                  IF event_idx1 - 1 > 0
                  THEN Some(CaseName(case_idx1 - 1))
                  ELSE None)]]

(* Scenario log of the specification: [[A,B],[A,B],[A,C]].                  *)
ScenarioTraces == << <<LabelA, LabelB>>, <<LabelA, LabelB>>, <<LabelA, LabelC>> >>
ScenarioLog == PlainLogOf(ScenarioTraces)

ParsedLogs == SeqsUpTo(SeqsUpTo(EpaLabels, MaxTraceLen), MaxTraces) \cup {ScenarioTraces}

RawCases == {1, 2}
RawEvents ==
    {Event(c, a, p) : c \in RawCases, a \in {1, 2},
                      p \in {None} \cup {Some(q) : q \in RawCases}}
RawLogs == {<<es>> : es \in SeqsUpTo(RawEvents, MaxRawEvents)}

InputLogs == {PlainLogOf(traces) : traces \in ParsedLogs} \cup RawLogs

----------------------------------------------------------------------------
(* src/src/epa.rs *)

Root == 0                       \* the id "root"
NewStateIdReused(n) == 1
NewStateId(n) == n              \* format!("s{}", n), n >= 1, never "root"

State(partition, sequences) == [partition |-> partition, sequences |-> sequences]

(* ExtendedPrefixAutomaton::new *)
NewEpa ==
    [states |-> (Root :> State(None, {})),
     transitions |-> <<>>,
     activities |-> {},
     root |-> Root]

Events == Flatten(plain_log)

(* epa.transitions.iter().find(|(source, act, _)| ...).map(|(_, _, target)| ..) *)
FindTransitionNever(transitions, pred_at, activity) == None
FindTransitionStays(transitions, pred_at, activity) ==
    IF \E i \in 1..Len(transitions) :
          transitions[i][1] = pred_at /\ transitions[i][2] = activity
    THEN Some(pred_at)
    ELSE None
FindTransition(transitions, pred_at, activity) ==
    LET hits == {i \in 1..Len(transitions) :
                    transitions[i][1] = pred_at /\ transitions[i][2] = activity}
    IN  IF hits = {} THEN None
        ELSE Some(transitions[CHOOSE i \in hits : \A j \in hits : i <= j][3])

PredAtRoot(event, lastAt, a) == a.root
(* event.predecessor.as_ref().and_then(|case| last_at.get(case)).unwrap_or(&epa.root) *)
PredAt(event, lastAt, a) ==
    IF IsSome(event.predecessor) /\ Unwrap(event.predecessor) \in DOMAIN lastAt
    THEN lastAt[Unwrap(event.predecessor)]
    ELSE a.root

(* the partition id of a state created from pred_at *)
CurrentCInherit(a, pred_at) ==
    IF pred_at = a.root THEN 1 ELSE UnwrapOr(a.states[pred_at].partition, 0)
CurrentCLargest(a, pred_at) ==
    IF pred_at = a.root THEN 1
    ELSE IF \E i \in 1..Len(a.transitions) : a.transitions[i][1] = pred_at
    THEN SetMax({Unwrap(a.states[s].partition) :
                    s \in {t \in DOMAIN a.states : IsSome(a.states[t].partition)}})
    ELSE UnwrapOr(a.states[pred_at].partition, 0)
CurrentCRootBranches(a, pred_at) ==
    IF \E i \in 1..Len(a.transitions) : a.transitions[i][1] = pred_at
    THEN SetMax({0} \cup {Unwrap(a.states[s].partition) :
                    s \in {t \in DOMAIN a.states : IsSome(a.states[t].partition)}}) + 1
    ELSE IF pred_at = a.root THEN 1
    ELSE UnwrapOr(a.states[pred_at].partition, 0)
CurrentCAlwaysFresh(a, pred_at) ==
    IF pred_at = a.root THEN 1
    ELSE SetMax({0} \cup {Unwrap(a.states[s].partition) :
                    s \in {t \in DOMAIN a.states : IsSome(a.states[t].partition)}}) + 1
CurrentCFromZero(a, pred_at) ==
    IF pred_at = a.root THEN 0
    ELSE IF \E i \in 1..Len(a.transitions) : a.transitions[i][1] = pred_at
    THEN SetMax({Unwrap(a.states[s].partition) :
                    s \in {t \in DOMAIN a.states : IsSome(a.states[t].partition)}}) + 1
    ELSE UnwrapOr(a.states[pred_at].partition, 0)
CurrentC(a, pred_at) ==
    IF pred_at = a.root THEN 1
    ELSE IF \E i \in 1..Len(a.transitions) : a.transitions[i][1] = pred_at
    THEN LET parts == {Unwrap(a.states[s].partition) :
                          s \in {t \in DOMAIN a.states : IsSome(a.states[t].partition)}}
         IN  (IF parts = {} THEN 0 ELSE SetMax(parts)) + 1
    ELSE UnwrapOr(a.states[pred_at].partition, 0)

(* One iteration of build's loop body on `event`: the automaton afterwards  *)
(* and the state the event ended in.                                        *)
Step(a, lastAt, event) ==
    LET pred_at == PredAt(event, lastAt, a)
        found == FindTransition(a.transitions, pred_at, event.activity)
        new_state_id == NewStateId(Cardinality(DOMAIN a.states))
        current_at == IF IsSome(found) THEN Unwrap(found) ELSE new_state_id
        grown ==
            IF IsSome(found) THEN a
            ELSE [a EXCEPT
                    !.states = [id \in DOMAIN a.states \cup {new_state_id} |->
                                  IF id = new_state_id
                                  THEN State(Some(CurrentC(a, pred_at)), {})
                                  ELSE a.states[id]],
                    !.transitions = Append(a.transitions,
                                           <<pred_at, event.activity, new_state_id>>),
                    !.activities = a.activities \cup {event.activity}]
        recorded ==
            IF current_at \in DOMAIN grown.states
            THEN [grown EXCEPT !.states[current_at].sequences = @ \cup {event}]
            ELSE grown
    IN  [epa |-> recorded, current_at |-> current_at, pred_at |-> pred_at]

EpaStart ==
    /\ plain_log \in InputLogs
    /\ pos = 0
    /\ epa = NewEpa
    /\ last_at = <<>>

EpaIdle ==
    /\ plain_log = <<>>
    /\ pos = 0
    /\ epa = NewEpa
    /\ last_at = <<>>

(* build: the body of `for event in trace`, for the next event in order *)
BuildStep ==
    /\ pos < Len(Events)
    /\ LET event == Events[pos + 1]
           r == Step(epa, last_at, event)
       IN  /\ epa' = r.epa
           /\ last_at' = [c \in DOMAIN last_at \cup {event.case} |->
                            IF c = event.case THEN r.current_at ELSE last_at[c]]
    /\ pos' = pos + 1
    /\ UNCHANGED plain_log

BuildDone == pos = Len(Events)

----------------------------------------------------------------------------
(* Entropy metrics.  The f64 values are logarithms, kept exact: the value   *)
(* x * log10(x) is log10(x^x), so a difference of such terms is the log10   *)
(* of a quotient of integers, [num, den] standing for log10(num / den).     *)
(* On the automata of this model (at most 9 states beyond the root) the     *)
(* f64 computation orders these values as the exact one does: a sum over a  *)
(* single class repeats the computation of s * log10(s) bit for bit, and    *)
(* with two classes or more the difference is at least log10(s).            *)

PowSelf(x) == x ^ x

StateCount(a) == Cardinality(DOMAIN a.states)

(* let s = (self.states.len() as f64).max(1.0);                             *)
(* let s = if s > 1.0 { s - 1.0 } else { s };                               *)
BaselineKeepRoot(len) == IF len >= 1 THEN len ELSE 1
Baseline(len) ==
    LET s == IF len >= 1 THEN len ELSE 1
    IN  IF s > 1 THEN s - 1 ELSE s

(* partition_sizes: HashMap<usize, usize>, the histogram of the partitions  *)
PartitionSizes(a) ==
    LET withPartition == {t \in DOMAIN a.states : IsSome(a.states[t].partition)}
        parts == {Unwrap(a.states[t].partition) : t \in withPartition}
    IN  [p \in parts |->
            Cardinality({t \in withPartition : Unwrap(a.states[t].partition) = p})]

(* sum_term, as the integer whose log10 it is: the product of size^size     *)
RECURSIVE SumTerm(_)
SumTerm(sizes) ==
    IF DOMAIN sizes = {} THEN 1
    ELSE LET p == CHOOSE q \in DOMAIN sizes : TRUE
         IN  PowSelf(sizes[p]) * SumTerm([q \in DOMAIN sizes \ {p} |-> sizes[q]])

(* variant_entropy: s * s.log10() - sum_term *)
VariantEntropyAdded(a) ==
    [num |-> PowSelf(Baseline(StateCount(a))) * SumTerm(PartitionSizes(a)), den |-> 1]
VariantEntropy(a) ==
    [num |-> PowSelf(Baseline(StateCount(a))), den |-> SumTerm(PartitionSizes(a))]

(* normalized_variant_entropy.  divided tells whether the division of line  *)
(* 136 was performed; the value is 0.0 when it was not, and otherwise       *)
(* log10(num / den) / log10(base).                                          *)
NormalizedVariantEntropy(a) ==
    LET e_v == VariantEntropy(a)
        s == Baseline(StateCount(a))
    IN  IF PowSelf(s) = 1       \* s * s.log10() == 0.0
        THEN [divided |-> FALSE, num |-> 1, den |-> 1, base |-> 1]
        ELSE [divided |-> TRUE, num |-> e_v.num, den |-> e_v.den, base |-> PowSelf(s)]

(* 0 <= v and v <= 1 for a value of normalized_variant_entropy *)
NonNegative(v) == (~v.divided) \/ v.den <= v.num
AtMostOne(v) ==
    \/ ~v.divided
    \/ (v.num \div v.den) < v.base
    \/ ((v.num \div v.den) = v.base /\ v.num % v.den = 0)

----------------------------------------------------------------------------
(* The dependency records (dependency_types).  The two sub-record types    *)
(* live in temporal.rs and existential.rs; their fields are those of the   *)
(* data model: endpoints, kind and direction.                               *)

TemporalTypes == {"Direct", "Eventual"}
TemporalDirections == {"Forward", "Backward"}
ExistentialTypes == {"Implication", "Equivalence", "NegatedEquivalence", "Nand", "Or"}
ExistentialDirections == {"Forward", "Backward", "Both"}

TemporalDependency(from, to, dependency_type, direction) ==
    [from |-> from, to |-> to, dependency_type |-> dependency_type, direction |-> direction]
ExistentialDependency(from, to, dependency_type, direction) ==
    [from |-> from, to |-> to, dependency_type |-> dependency_type, direction |-> direction]

(* Dependency::new *)
Dependency(from, to, temporal_dependency, existential_dependency) ==
    [from |-> from, to |-> to,
     temporal_dependency |-> temporal_dependency,
     existential_dependency |-> existential_dependency]

(* String ordering (Ord for String): lexicographic on the characters *)
RECURSIVE StrLess(_, _)
StrLess(a, b) ==
    IF b = <<>> THEN FALSE
    ELSE IF a = <<>> THEN TRUE
    ELSE IF Head(a) # Head(b) THEN Head(a) < Head(b)
    ELSE StrLess(Tail(a), Tail(b))

(* The orders in which a HashSet can be iterated: every arrangement of it   *)
Arrangements(S) ==
    {q \in [1..Cardinality(S) -> S] : \A i, j \in 1..Cardinality(S) : q[i] = q[j] => i = j}

----------------------------------------------------------------------------
(* The classification oracle.  check_temporal_dependency and               *)
(* check_existential_dependency are pure and deterministic and return at   *)
(* most one relation each; which one is not fixed here.  A run is made with *)
(* one oracle of a family that gives every pair every combination of a     *)
(* temporal and an existential answer: answer number n is temporal answer  *)
(* n mod 5 with existential answer n mod 16, and the pair (from, to) gets  *)
(* answer seed + stride * (a number of the pair).                          *)

MaxActivity == 3        \* the activity labels are the first MaxActivity letters
ActivityLabels == {<<c>> : c \in 1..MaxActivity}

TemporalAnswers ==
    <<None, Some(<<"Direct", "Forward">>), Some(<<"Direct", "Backward">>),
      Some(<<"Eventual", "Forward">>), Some(<<"Eventual", "Backward">>)>>
ExistentialAnswers ==
    <<None,
      Some(<<"Implication", "Forward">>), Some(<<"Equivalence", "Both">>),
      Some(<<"NegatedEquivalence", "Both">>), Some(<<"Nand", "Both">>),
      Some(<<"Or", "Both">>), Some(<<"Implication", "Backward">>),
      Some(<<"Equivalence", "Forward">>), Some(<<"NegatedEquivalence", "Forward">>),
      Some(<<"Nand", "Forward">>), Some(<<"Or", "Forward">>),
      Some(<<"Implication", "Both">>), Some(<<"Equivalence", "Backward">>),
      Some(<<"NegatedEquivalence", "Backward">>), Some(<<"Nand", "Backward">>),
      Some(<<"Or", "Backward">>)>>
NumAnswers == Len(TemporalAnswers) * Len(ExistentialAnswers)

Oracles == [seed : 0..(NumAnswers - 1), stride : {1, 3}]

PairNumber(from, to) == Len(ExistentialAnswers) * Head(from) + Len(TemporalAnswers) * Head(to)
AnswerNumber(o, from, to) == (o.seed + o.stride * PairNumber(from, to)) % NumAnswers

(* one more call of a classifier with (from, to) *)
CountCall(c, classifier, from, to) ==
    LET call == <<classifier, from, to>>
    IN  IF call \in DOMAIN c THEN [c EXCEPT ![call] = @ + 1] ELSE c @@ (call :> 1)

check_temporal_dependency(o, from, to) ==
    LET answer == TemporalAnswers[(AnswerNumber(o, from, to) % Len(TemporalAnswers)) + 1]
    IN  IF IsSome(answer)
        THEN Some(TemporalDependency(from, to, Unwrap(answer)[1], Unwrap(answer)[2]))
        ELSE None

check_existential_dependency(o, from, to) ==
    LET answer == ExistentialAnswers[(AnswerNumber(o, from, to) % Len(ExistentialAnswers)) + 1]
    IN  IF IsSome(answer)
        THEN Some(ExistentialDependency(from, to, Unwrap(answer)[1], Unwrap(answer)[2]))
        ELSE None

----------------------------------------------------------------------------
(* src/src/lib.rs: the matrix builder and MatrixMetrics *)

(* MatrixMetrics::default() *)
DefaultMetrics ==
    [full_independences |-> 0, pure_existences |-> 0,
     eventual_equivalences |-> 0, direct_equivalences |-> 0,
     relationship_counts |-> <<>>]

(* the temporal_type and existential_type strings of MatrixMetrics::update *)
TemporalTypeName(temporal_dependency) ==
    IF IsSome(temporal_dependency)
    THEN (IF Unwrap(temporal_dependency).dependency_type = "Eventual"
          THEN "eventual" ELSE "direct")
    ELSE "none"

ExistentialTypeName(existential_dependency) ==
    IF IsSome(existential_dependency)
    THEN CASE Unwrap(existential_dependency).dependency_type = "Equivalence" -> "equivalence"
           [] Unwrap(existential_dependency).dependency_type = "Implication" -> "implication"
           [] Unwrap(existential_dependency).dependency_type = "NegatedEquivalence"
                -> "negated equivalence"
           [] OTHER -> "other"
    ELSE "none"

(* format!("({}, {})", temporal_type, existential_type): the key is modelled *)
(* as the pair of the two names, which the format maps one to one.          *)
RelationshipType(temporal_type, existential_type) == <<temporal_type, existential_type>>

(* *self.relationship_counts.entry(key).or_insert(0) += 1 *)
EntryInsertOne(counts, key) ==
    [k \in DOMAIN counts \cup {key} |-> IF k = key THEN 1 ELSE counts[k]]
EntryIncrement(counts, key) ==
    [k \in DOMAIN counts \cup {key} |->
        IF k = key THEN (IF key \in DOMAIN counts THEN counts[key] ELSE 0) + 1
        ELSE counts[k]]

(* the None arm of existential_type: is the pair a full independence? *)
IsFullIndependenceAnyTemporal(temporal_type, existential_dependency) ==
    ~IsSome(existential_dependency)
IsFullIndependence(temporal_type, existential_dependency) ==
    (~IsSome(existential_dependency)) /\ temporal_type = "none"

(* lines 391-401: which equivalence counter the pair increments, if any *)
CountsAsEquivalenceAnyTemporal(temporal_dependency, existential_dependency, temporal_type) ==
    /\ IsSome(existential_dependency)
    /\ Unwrap(existential_dependency).dependency_type = "Equivalence"
    /\ (~IsSome(temporal_dependency)
          \/ Unwrap(temporal_dependency).dependency_type = temporal_type)
CountsAsEquivalence(temporal_dependency, existential_dependency, temporal_type) ==
    /\ IsSome(existential_dependency)
    /\ Unwrap(existential_dependency).dependency_type = "Equivalence"
    /\ IsSome(temporal_dependency)
    /\ Unwrap(temporal_dependency).dependency_type = temporal_type

(* MatrixMetrics::update *)
MetricsUpdate(mm, temporal_dependency, existential_dependency) ==
    LET temporal_type == TemporalTypeName(temporal_dependency)
        existential_type == ExistentialTypeName(existential_dependency)
        pure == IF IsSome(temporal_dependency) THEN mm.pure_existences
                ELSE mm.pure_existences + 1
        full == IF IsFullIndependence(temporal_type, existential_dependency)
                THEN mm.full_independences + 1
                ELSE mm.full_independences
        eventual ==
            IF CountsAsEquivalence(temporal_dependency, existential_dependency, "Eventual")
            THEN mm.eventual_equivalences + 1 ELSE mm.eventual_equivalences
        direct ==
            IF CountsAsEquivalence(temporal_dependency, existential_dependency, "Direct")
            THEN mm.direct_equivalences + 1 ELSE mm.direct_equivalences
    IN  [full_independences |-> full,
         pure_existences |-> pure,
         eventual_equivalences |-> eventual,
         direct_equivalences |-> direct,
         relationship_counts |->
            EntryIncrement(mm.relationship_counts,
                           RelationshipType(temporal_type, existential_type))]

(* activities_sorted.sort(): insertion of each element at its place *)
RECURSIVE SortStrings(_)
SortStrings(q) ==
    IF q = <<>> THEN <<>>
    ELSE LET rest == SortStrings(Tail(q))
             before == SelectSeq(rest, LAMBDA x : StrLess(x, Head(q)))
             after == SelectSeq(rest, LAMBDA x : ~StrLess(x, Head(q)))
         IN  before \o <<Head(q)>> \o after

MatrixIdle ==
    /\ m_pc = "idle"
    /\ m_activities = {}
    /\ activities_sorted = <<>>
    /\ from_idx = 0
    /\ to_idx = 0
    /\ metrics = DefaultMetrics
    /\ output = <<>>

(* the call: any set of activities, any oracle of the family *)
MatrixStart ==
    /\ m_pc = "start"
    /\ m_activities \in SUBSET ActivityLabels
    /\ activities_sorted = <<>>
    /\ from_idx = 0
    /\ to_idx = 0
    /\ metrics = DefaultMetrics
    /\ output = <<>>

(* lines 269-282: the metrics, the sorted activities, the header *)
MatrixSetup ==
    /\ m_pc = "start"
    /\ \E collected \in Arrangements(m_activities) :
          activities_sorted' = SortStrings(collected)
    /\ m_pc' = "loop"
    /\ UNCHANGED <<m_activities, from_idx, to_idx, metrics, output, calls>>

MatrixK == Len(activities_sorted)

(* the cell of the loops' current position *)
CellFrom == activities_sorted[from_idx + 1]
CellTo == activities_sorted[to_idx + 1]

Advance ==
    IF to_idx + 1 = MatrixK
    THEN from_idx' = from_idx + 1 /\ to_idx' = 0
    ELSE from_idx' = from_idx /\ to_idx' = to_idx + 1

(* lines 302-309: the two calls made for a cell with to != from *)
ClassifierCalls(c, from, to) ==
    CountCall(CountCall(c, "check_temporal_dependency", from, to),
              "check_existential_dependency", from, to)

(* lines 301-320: a cell with to != from *)
ClassifyPair ==
    /\ m_pc = "loop"
    /\ from_idx < MatrixK
    /\ CellTo # CellFrom
    /\ LET temporal_dependency == check_temporal_dependency(oracle, CellFrom, CellTo)
           existential_dependency == check_existential_dependency(oracle, CellFrom, CellTo)
           dependency == Dependency(CellFrom, CellTo, temporal_dependency,
                                    existential_dependency)
       IN  /\ metrics' = MetricsUpdate(metrics, temporal_dependency, existential_dependency)
           /\ output' = Append(output, Some(dependency))
    /\ calls' = ClassifierCalls(calls, CellFrom, CellTo)
    /\ Advance
    /\ UNCHANGED <<m_pc, m_activities, activities_sorted>>

(* lines 321-323: a cell of the diagonal, the placeholder "TODO" *)
DiagonalCell ==
    /\ m_pc = "loop"
    /\ from_idx < MatrixK
    /\ CellTo = CellFrom
    /\ output' = Append(output, None)
    /\ Advance
    /\ UNCHANGED <<m_pc, m_activities, activities_sorted, metrics, calls>>

(* lines 328-336: the returned tuple is read off the metrics *)
MatrixReturn ==
    /\ m_pc = "loop"
    /\ from_idx = MatrixK
    /\ m_pc' = "done"
    /\ UNCHANGED <<m_activities, activities_sorted, from_idx, to_idx, metrics, output,
                   calls>>

(* the number of activities the call returns: activities.len() *)
TotalActivities == Cardinality(m_activities)

----------------------------------------------------------------------------
(* src/src/evaluation.rs: evaluate_deps *)

MaxDeps == 2            \* hypothesis dependencies of one call

(* RelationInput::to_dependency: the hypothesis a form entry stands for; the *)
(* sub-records carry the entry's own from and to.                           *)
to_dependency(from, to, temporal, existential) ==
    Dependency(from, to,
        IF IsSome(temporal)
        THEN Some(TemporalDependency(from, to, Unwrap(temporal)[1], Unwrap(temporal)[2]))
        ELSE None,
        IF IsSome(existential)
        THEN Some(ExistentialDependency(from, to, Unwrap(existential)[1],
                                        Unwrap(existential)[2]))
        ELSE None)

(* The hypotheses of the model: a pair in the order of the labels, the same *)
(* pair reversed, a pair of one label, a pair with the last label; each     *)
(* with every temporal and every existential answer.                        *)
HypothesisPairs == {<<LabelA, LabelB>>, <<LabelB, LabelA>>, <<LabelA, LabelA>>,
                    <<LabelB, LabelC>>}
Hypotheses ==
    {to_dependency(p[1], p[2],
                   TemporalAnswers[(n % Len(TemporalAnswers)) + 1],
                   ExistentialAnswers[n + 1]) :
        p \in HypothesisPairs, n \in 0..(Len(ExistentialAnswers) - 1)}
FollowUps ==
    {to_dependency(LabelB, LabelA, TemporalAnswers[5], ExistentialAnswers[1]),
     to_dependency(LabelC, LabelA, TemporalAnswers[4], ExistentialAnswers[2])}

(* the lists of at most MaxDeps hypotheses: any first one, then follow-ups  *)
HypothesisLists ==
    {<<>>} \cup {<<h>> \o rest : h \in Hypotheses, rest \in SeqsUpTo(FollowUps, MaxDeps - 1)}

(* the oracles of the evaluator's runs: every pair gets every temporal and  *)
(* every existential answer                                                 *)
EvalOracles == {o \in Oracles : o.seed < Len(ExistentialAnswers) /\ o.stride = 1}

(* the sets of the first k labels, k = 0..MaxActivity *)
ActivitySets == {{<<c>> : c \in 1..k} : k \in 0..MaxActivity}

(* PartialEq of the two sub-record types, as the scoring rules state it:    *)
(* temporal dependencies are equal when kind and direction are, existential *)
(* dependencies when kind, direction and endpoints are.                     *)
TemporalEq(a, b) ==
    \/ (~IsSome(a)) /\ ~IsSome(b)
    \/ /\ IsSome(a) /\ IsSome(b)
       /\ Unwrap(a).dependency_type = Unwrap(b).dependency_type
       /\ Unwrap(a).direction = Unwrap(b).direction
ExistentialEq(a, b) == a = b

(* line 839: `if to != from` *)
ClassifiesAnyPair(from, to) == TRUE
ClassifiesPair(from, to) == to # from

(* lines 837-853: the ordered pairs in the iteration order of the HashSet   *)
RECURSIVE CollectRow(_, _, _, _)
CollectRow(o, from, order, j) ==
    IF j > Len(order) THEN <<>>
    ELSE (IF ClassifiesPair(from, order[j])
          THEN <<Dependency(from, order[j],
                            check_temporal_dependency(o, from, order[j]),
                            check_existential_dependency(o, from, order[j]))>>
          ELSE <<>>) \o CollectRow(o, from, order, j + 1)

RECURSIVE CollectPairs(_, _, _)
CollectPairs(o, order, i) ==
    IF i > Len(order) THEN <<>>
    ELSE CollectRow(o, order[i], order, 1) \o CollectPairs(o, order, i + 1)

(* lines 837-853: the calls of the classifiers the two loops make *)
RECURSIVE RowCalls(_, _, _, _)
RowCalls(c, from, order, j) ==
    IF j > Len(order) THEN c
    ELSE RowCalls(IF ClassifiesPair(from, order[j])
                  THEN ClassifierCalls(c, from, order[j]) ELSE c,
                  from, order, j + 1)

RECURSIVE LoopCalls(_, _, _)
LoopCalls(c, order, i) ==
    IF i > Len(order) THEN c
    ELSE LoopCalls(RowCalls(c, order[i], order, 1), order, i + 1)

(* a.from.cmp(&b.from).then(a.to.cmp(&b.to)) is Less *)
DepLessByToOnly(a, b) == StrLess(a.to, b.to)
DepLess(a, b) ==
    \/ StrLess(a.from, b.from)
    \/ a.from = b.from /\ StrLess(a.to, b.to)

(* adj_matrix.sort_by(..): a stable sort *)
SortDepsKeepOrder(q) == q
RECURSIVE SortDeps(_)
SortDeps(q) ==
    IF q = <<>> THEN <<>>
    ELSE LET rest == SortDeps(Tail(q))
             before == SelectSeq(rest, LAMBDA x : DepLess(x, Head(q)))
             after == SelectSeq(rest, LAMBDA x : ~DepLess(x, Head(q)))
         IN  before \o <<Head(q)>> \o after

(* lines 860-868: one pass of the loop per dependency *)
KeepsForwardOnly(seenPairs, dep) == <<dep.from, dep.to>> \notin seenPairs
Keeps(seenPairs, dep) ==
    <<dep.from, dep.to>> \notin seenPairs /\ <<dep.to, dep.from>> \notin seenPairs

RECURSIVE Deduplicated(_, _, _)
Deduplicated(q, seenPairs, kept) ==
    IF q = <<>> THEN [seen |-> seenPairs, adj_matrix_sorted |-> kept]
    ELSE IF Keeps(seenPairs, Head(q))
    THEN Deduplicated(Tail(q), seenPairs \cup {<<Head(q).from, Head(q).to>>},
                      Append(kept, Head(q)))
    ELSE Deduplicated(Tail(q), seenPairs, kept)

(* lines 876-878: adj_matrix_sorted.iter().find(..) *)
MatchingDepFirst(canonical, dep) ==
    IF canonical = <<>> THEN None ELSE Some(canonical[1])
IsMatchForwardOnly(d, dep) == d.from = dep.from /\ d.to = dep.to
IsMatch(d, dep) ==
    (d.from = dep.from /\ d.to = dep.to) \/ (d.from = dep.to /\ d.to = dep.from)

MatchingDep(canonical, dep) ==
    LET hits == {i \in 1..Len(canonical) : IsMatch(canonical[i], dep)}
    IN  IF hits = {} THEN None
        ELSE Some(canonical[CHOOSE i \in hits : \A j \in hits : i <= j])

(* lines 882-884 *)
TemporalCorrectKindOnly(dep, actual_dep) ==
    \/ (~IsSome(dep.temporal_dependency)) /\ ~IsSome(actual_dep.temporal_dependency)
    \/ /\ IsSome(dep.temporal_dependency) /\ IsSome(actual_dep.temporal_dependency)
       /\ Unwrap(dep.temporal_dependency).dependency_type
            = Unwrap(actual_dep.temporal_dependency).dependency_type
TemporalCorrect(dep, actual_dep) ==
    TemporalEq(dep.temporal_dependency, actual_dep.temporal_dependency)

(* lines 887-914 *)
ExistentialCorrectStrict(dep, actual_dep) ==
    ExistentialEq(dep.existential_dependency, actual_dep.existential_dependency)
ExistentialCorrect(dep, actual_dep) ==
    LET e == dep.existential_dependency
        a == actual_dep.existential_dependency
    IN  IF IsSome(e) /\ IsSome(a)
        THEN IF Unwrap(e).dependency_type \in {"Equivalence", "NegatedEquivalence"}
             THEN Unwrap(e).dependency_type = Unwrap(a).dependency_type
             ELSE IF Unwrap(e).dependency_type = "Or"
             THEN Unwrap(e).dependency_type = Unwrap(a).dependency_type
             ELSE ExistentialEq(e, a)
        ELSE (~IsSome(e)) /\ ~IsSome(a)

EvalIdle ==
    /\ e_pc = "idle"
    /\ e_activities = {}
    /\ deps = <<>>
    /\ adj_matrix = <<>>
    /\ seen = {}
    /\ adj_matrix_sorted = <<>>
    /\ dep_idx = 0
    /\ correct_temporal = 0
    /\ correct_existential = 0
    /\ result = None
    /\ rendered = None

(* the call: the activities of the parsed log, the hypotheses *)
EvalStart ==
    /\ e_pc = "start"
    /\ e_activities \in ActivitySets
    /\ deps \in HypothesisLists
    /\ adj_matrix = <<>>
    /\ seen = {}
    /\ adj_matrix_sorted = <<>>
    /\ dep_idx = 0
    /\ correct_temporal = 0
    /\ correct_existential = 0
    /\ result = None
    /\ rendered = None

(* line 834: activities.len() * (activities.len() - 1) on usize.  With no   *)
(* activity the subtraction overflows: a build with overflow checks panics, *)
(* a build without wraps to usize::MAX and the product is 0.                *)
CapacityPanics ==
    /\ e_pc = "start"
    /\ Cardinality(e_activities) = 0
    /\ e_pc' = "panicked"
    /\ UNCHANGED <<calls, e_activities, deps, adj_matrix, seen, adj_matrix_sorted, dep_idx,
                   correct_temporal, correct_existential, result, rendered>>

CapacityComputed ==
    /\ e_pc = "start"
    /\ e_pc' = "collect"
    /\ UNCHANGED <<calls, e_activities, deps, adj_matrix, seen, adj_matrix_sorted, dep_idx,
                   correct_temporal, correct_existential, result, rendered>>

(* lines 837-853, in whichever order the HashSet iterates *)
CollectAdjMatrix ==
    /\ e_pc = "collect"
    /\ \E order \in Arrangements(e_activities) :
          /\ adj_matrix' = CollectPairs(oracle, order, 1)
          /\ calls' = LoopCalls(calls, order, 1)
    /\ e_pc' = "sort"
    /\ UNCHANGED <<e_activities, deps, seen, adj_matrix_sorted, dep_idx,
                   correct_temporal, correct_existential, result, rendered>>

(* lines 855-858 *)
SortAdjMatrix ==
    /\ e_pc = "sort"
    /\ adj_matrix' = SortDeps(adj_matrix)
    /\ e_pc' = "dedup"
    /\ UNCHANGED <<calls, e_activities, deps, seen, adj_matrix_sorted, dep_idx,
                   correct_temporal, correct_existential, result, rendered>>

(* lines 860-868 *)
Deduplicate ==
    /\ e_pc = "dedup"
    /\ LET r == Deduplicated(adj_matrix, {}, <<>>)
       IN  /\ seen' = r.seen
           /\ adj_matrix_sorted' = r.adj_matrix_sorted
    /\ e_pc' = "score"
    /\ UNCHANGED <<calls, e_activities, deps, adj_matrix, dep_idx,
                   correct_temporal, correct_existential, result, rendered>>

(* lines 874-916: the loop body for the next hypothesis *)
ScoreDep ==
    /\ e_pc = "score"
    /\ dep_idx < Len(deps)
    /\ LET dep == deps[dep_idx + 1]
           matching_dep == MatchingDep(adj_matrix_sorted, dep)
       IN  /\ correct_temporal' =
                IF IsSome(matching_dep) /\ TemporalCorrect(dep, Unwrap(matching_dep))
                THEN correct_temporal + 1 ELSE correct_temporal
           /\ correct_existential' =
                IF IsSome(matching_dep) /\ ExistentialCorrect(dep, Unwrap(matching_dep))
                THEN correct_existential + 1 ELSE correct_existential
    /\ dep_idx' = dep_idx + 1
    /\ UNCHANGED <<calls, e_pc, e_activities, deps, adj_matrix, seen, adj_matrix_sorted, result,
                   rendered>>

(* lines 918-923 *)
EvalReturn ==
    /\ e_pc = "score"
    /\ dep_idx = Len(deps)
    /\ result' = Some(<<correct_temporal, Len(deps), correct_existential, Len(deps)>>)
    /\ e_pc' = "done"
    /\ UNCHANGED <<calls, e_activities, deps, adj_matrix, seen, adj_matrix_sorted, dep_idx,
                   correct_temporal, correct_existential, rendered>>

(* format!("{:.0}", x) of the quotient num / den of naturals, den > 0: the  *)
(* nearest integer, a tie going to the even one                             *)
RoundHalfEven(num, den) ==
    LET q == num \div den
        r == num % den
    IN  IF 2 * r > den THEN q + 1
        ELSE IF 2 * r < den THEN q
        ELSE IF q % 2 = 0 THEN q ELSE q + 1

(* lines 521-529: correct as f64 / total as f64 * 100.0, shown with {:.0}.  *)
(* The division is made whatever the total: 0.0 / 0.0 is NaN and a positive *)
(* count over 0.0 is inf.                                                   *)
Percentage(correct, total) ==
    [divisor |-> total,
     shown |-> IF total = 0 THEN (IF correct = 0 THEN "NaN" ELSE "inf")
               ELSE RoundHalfEven(correct * 100, total)]

(* lines 516-531: the result set by the evaluate callback is rendered *)
RenderResult ==
    /\ e_pc = "done"
    /\ IsSome(result)
    /\ rendered' = Some([temporal |-> Percentage(Unwrap(result)[1], Unwrap(result)[2]),
                         existential |-> Percentage(Unwrap(result)[3], Unwrap(result)[4])])
    /\ e_pc' = "rendered"
    /\ UNCHANGED <<calls, e_activities, deps, adj_matrix, seen, adj_matrix_sorted, dep_idx,
                   correct_temporal, correct_existential, result>>

----------------------------------------------------------------------------
(* src/src/dependency_types/dependency.rs: the compact notation.  A string  *)
(* is the sequence of its characters.                                       *)

MaxLines == 2           \* lines of one text handed to convert_to_dependencies

Comma == ","
Colon == ":"
Space == " "
Dash == "-"
Newline == "\n"

RECURSIVE Concat(_)
Concat(strs) == IF strs = <<>> THEN <<>> ELSE Head(strs) \o Concat(Tail(strs))

(* str::split(pattern): the pieces between the separators, empty ones kept *)
RECURSIVE SplitAcc(_, _, _, _)
SplitAcc(s, seps, piece, pieces) ==
    IF s = <<>> THEN Append(pieces, piece)
    ELSE IF Head(s) \in seps
    THEN SplitAcc(Tail(s), seps, <<>>, Append(pieces, piece))
    ELSE SplitAcc(Tail(s), seps, Append(piece, Head(s)), pieces)

Split(s, seps) == SplitAcc(s, seps, <<>>, <<>>)

(* str::lines(): the pieces between line feeds, without a last empty piece *)
Lines(s) ==
    LET pieces == Split(s, {Newline})
    IN  IF pieces[Len(pieces)] = <<>> THEN SubSeq(pieces, 1, Len(pieces) - 1) ELSE pieces

(* iter.next().copied(): the n-th part, if there is one *)
NextPart(parts, n) == IF n <= Len(parts) THEN Some(parts[n]) ELSE None

Parsed(value) == [ok |-> TRUE, value |-> value, message |-> "", part |-> <<>>]
Panic(message, part) == [ok |-> FALSE, value |-> None, message |-> message, part |-> part]

(* lines 73-79 *)
temporal_type_swapped(part) ==
    IF ~IsSome(part) THEN Panic("Missing dependency type", <<>>)
    ELSE IF Unwrap(part) = <<"d">> THEN Parsed(Some("Eventual"))
    ELSE IF Unwrap(part) = <<"e">> THEN Parsed(Some("Direct"))
    ELSE IF Unwrap(part) = <<Dash>> THEN Parsed(None)
    ELSE Panic("Invalid temporal dependency type", Unwrap(part))
temporal_type(part) ==
    IF ~IsSome(part) THEN Panic("Missing dependency type", <<>>)
    ELSE IF Unwrap(part) = <<"d">> THEN Parsed(Some("Direct"))
    ELSE IF Unwrap(part) = <<"e">> THEN Parsed(Some("Eventual"))
    ELSE IF Unwrap(part) = <<Dash>> THEN Parsed(None)
    ELSE Panic("Invalid temporal dependency type", Unwrap(part))

(* lines 81-87 *)
temporal_direction(part) ==
    IF ~IsSome(part) THEN Panic("Missing direction", <<>>)
    ELSE IF Unwrap(part) = <<"b">> THEN Parsed(Some("Backward"))
    ELSE IF Unwrap(part) = <<"f">> THEN Parsed(Some("Forward"))
    ELSE IF Unwrap(part) = <<Dash>> THEN Parsed(None)
    ELSE Panic("Invalid direction", Unwrap(part))

(* lines 101-110 *)
existential_type(part) ==
    IF ~IsSome(part) THEN Panic("Missing existential dependency type", <<>>)
    ELSE IF Unwrap(part) = <<"i">> THEN Parsed(Some("Implication"))
    ELSE IF Unwrap(part) = <<"e">> THEN Parsed(Some("Equivalence"))
    ELSE IF Unwrap(part) = <<"n", "e">> THEN Parsed(Some("NegatedEquivalence"))
    ELSE IF Unwrap(part) = <<"n">> THEN Parsed(Some("Nand"))
    ELSE IF Unwrap(part) = <<"o">> THEN Parsed(Some("Or"))
    ELSE IF Unwrap(part) = <<Dash>> THEN Parsed(None)
    ELSE Panic("Invalid existential dependency type", Unwrap(part))

(* lines 112-121 *)
existential_direction_required(part) ==
    IF ~IsSome(part) THEN Panic("Missing direction", <<>>)
    ELSE IF Unwrap(part) = <<"f">> THEN Parsed(Some("Forward"))
    ELSE IF Unwrap(part) = <<"b">> THEN Parsed(Some("Backward"))
    ELSE IF Unwrap(part) = <<Dash>> THEN Parsed(None)
    ELSE Panic("Invalid direction", Unwrap(part))
existential_direction(part) ==
    IF ~IsSome(part) THEN Parsed(Some("Both"))
    ELSE IF Unwrap(part) = <<"f">> THEN Parsed(Some("Forward"))
    ELSE IF Unwrap(part) = <<"b">> THEN Parsed(Some("Backward"))
    ELSE IF Unwrap(part) = <<Dash>> THEN Parsed(None)
    ELSE Panic("Invalid direction", Unwrap(part))

(* the three ways a call of from_str ends *)
Ok(dep) == [outcome |-> "Ok", dep |-> Some(dep), message |-> "", part |-> <<>>]
Err(message) == [outcome |-> "Err", dep |-> None, message |-> message, part |-> <<>>]
Panicked(failed) ==
    [outcome |-> "panic", dep |-> None, message |-> failed.message, part |-> failed.part]

(* lines 60-141: Dependency::from_str *)
from_str(s) ==
    LET parts == Split(s, {Comma, Colon, Space})
        from == NextPart(parts, 1)
        to == NextPart(parts, 2)
        temporal == temporal_type(NextPart(parts, 3))
        direction == temporal_direction(NextPart(parts, 4))
        existential == existential_type(NextPart(parts, 5))
        e_direction == existential_direction(NextPart(parts, 6))
    IN  IF ~IsSome(from) THEN Err("Could not parse from activity")
        ELSE IF ~IsSome(to) THEN Err("Could not parse to activity")
        ELSE IF ~temporal.ok THEN Panicked(temporal)
        ELSE IF ~direction.ok THEN Panicked(direction)
        ELSE IF ~existential.ok THEN Panicked(existential)
        ELSE IF ~e_direction.ok THEN Panicked(e_direction)
        ELSE Ok(Dependency(Unwrap(from), Unwrap(to),
                 IF IsSome(temporal.value) /\ IsSome(direction.value)
                 THEN Some(TemporalDependency(Unwrap(from), Unwrap(to),
                                              Unwrap(temporal.value),
                                              Unwrap(direction.value)))
                 ELSE None,
                 IF IsSome(existential.value) /\ IsSome(e_direction.value)
                 THEN Some(ExistentialDependency(Unwrap(from), Unwrap(to),
                                                 Unwrap(existential.value),
                                                 Unwrap(e_direction.value)))
                 ELSE None))

(* Display of the two sub-records (temporal.rs, existential.rs): the codes  *)
(* of the notation, kind then direction; a direction Both writes nothing    *)
TemporalRepr(t) ==
    (IF t.dependency_type = "Direct" THEN <<"d">> ELSE <<"e">>)
       \o <<Comma>> \o (IF t.direction = "Forward" THEN <<"f">> ELSE <<"b">>)

ExistentialRepr(e) ==
    (CASE e.dependency_type = "Implication" -> <<"i">>
       [] e.dependency_type = "Equivalence" -> <<"e">>
       [] e.dependency_type = "NegatedEquivalence" -> <<"n", "e">>
       [] e.dependency_type = "Nand" -> <<"n">>
       [] OTHER -> <<"o">>)
       \o (CASE e.direction = "Forward" -> <<Comma, "f">>
             [] e.direction = "Backward" -> <<Comma, "b">>
             [] OTHER -> <<>>)

(* lines 41-54: Display for Dependency *)
Display(dep) ==
    LET temporal_dep == IF IsSome(dep.temporal_dependency)
                        THEN Some(TemporalRepr(Unwrap(dep.temporal_dependency)))
                        ELSE None
        existential_dep == IF IsSome(dep.existential_dependency)
                           THEN Some(ExistentialRepr(Unwrap(dep.existential_dependency)))
                           ELSE None
    IN  IF IsSome(temporal_dep) /\ IsSome(existential_dep)
        THEN Unwrap(temporal_dep) \o <<Comma>> \o Unwrap(existential_dep)
        ELSE IF IsSome(temporal_dep) THEN Unwrap(temporal_dep) \o <<Comma, Dash>>
        ELSE IF IsSome(existential_dep) THEN <<Dash, Comma>> \o Unwrap(existential_dep)
        ELSE <<"N", "o", "n", "e">>

(* The texts of the model.  A line is written from its parts in the layout  *)
(* `from,to:temporalCode,temporalDir existentialCode,existentialDir`; the   *)
(* parts are the codes of the notation and one code it does not have, and   *)
(* a line may stop after any part.                                          *)
Layout == <<Comma, Colon, Comma, Space, Comma>>

RECURSIVE LineFrom(_, _)
LineFrom(parts, n) ==
    IF n > Len(parts) THEN <<>>
    ELSE (IF n > 1 THEN <<Layout[n - 1]>> ELSE <<>>) \o parts[n] \o LineFrom(parts, n + 1)

LineOf(parts) == LineFrom(parts, 1)

Unknown == <<"x">>
TemporalCodes == {<<"d">>, <<"e">>}
DirectionCodes == {<<"f">>, <<"b">>}
ExistentialCodes == {<<"i">>, <<"e">>, <<"n", "e">>, <<"n">>, <<"o">>}

FullParts ==
    {<<<<"a">>, <<"b">>, tc, td, ec>> \o ed :
        tc \in TemporalCodes \cup {<<Dash>>, Unknown},
        td \in DirectionCodes \cup {<<Dash>>, Unknown},
        ec \in ExistentialCodes \cup {<<Dash>>, Unknown},
        ed \in {<<>>} \cup {<<d>> : d \in DirectionCodes \cup {<<Dash>>, Unknown}}}

InputParts == UNION {{SubSeq(p, 1, n) : n \in 1..Len(p)} : p \in FullParts}

InputLines == {<<>>} \cup {LineOf(p) : p \in InputParts}
FollowParts == {<<<<"a">>, <<"c">>, <<"e">>, <<"f">>, <<"e">>>>}
FollowLines == {<<>>} \cup {LineOf(p) : p \in FollowParts}

(* the lines of a text: any first line, then lines of FollowLines; the last *)
(* line with or without its line feed                                       *)
Unlines(ls) == Concat([i \in 1..Len(ls) |-> ls[i] \o <<Newline>>])
InputTexts ==
    LET lists == {<<>>} \cup
                 {<<l>> \o rest : l \in InputLines, rest \in SeqsUpTo(FollowLines, MaxLines - 1)}
    IN  {Unlines(ls) : ls \in lists} \cup
        {SubSeq(Unlines(ls), 1, Len(Unlines(ls)) - 1) : ls \in lists \ {<<>>}}

CodecIdle ==
    /\ c_pc = "idle"
    /\ c_text = <<>>
    /\ c_idx = 0
    /\ c_deps = <<>>
    /\ c_failure = None
    /\ c_shown = <<>>

(* the call convert_to_dependencies(s) *)
CodecStart ==
    /\ c_pc = "loop"
    /\ c_text \in InputTexts
    /\ c_idx = 0
    /\ c_deps = <<>>
    /\ c_failure = None
    /\ c_shown = <<>>

CodecLines == Lines(c_text)
CurrentLine == CodecLines[c_idx + 1]

(* lines 147-149 *)
SkipEmptyLine ==
    /\ c_pc = "loop"
    /\ c_idx < Len(CodecLines)
    /\ CurrentLine = <<>>
    /\ c_idx' = c_idx + 1
    /\ UNCHANGED <<c_pc, c_text, c_deps, c_failure, c_shown>>

(* lines 150-151: the line decodes *)
ConvertLine ==
    /\ c_pc = "loop"
    /\ c_idx < Len(CodecLines)
    /\ CurrentLine # <<>>
    /\ from_str(CurrentLine).outcome = "Ok"
    /\ c_deps' = Append(c_deps, Unwrap(from_str(CurrentLine).dep))
    /\ c_idx' = c_idx + 1
    /\ UNCHANGED <<c_pc, c_text, c_failure, c_shown>>

(* line 150: from_str panics, or returns the Err that unwrap() panics on;   *)
(* the call ends there and returns nothing                                  *)
ConvertPanics ==
    /\ c_pc = "loop"
    /\ c_idx < Len(CodecLines)
    /\ CurrentLine # <<>>
    /\ from_str(CurrentLine).outcome # "Ok"
    /\ c_failure' = Some(from_str(CurrentLine))
    /\ c_pc' = "panicked"
    /\ UNCHANGED <<c_text, c_idx, c_deps, c_shown>>

(* line 153 *)
ConvertReturn ==
    /\ c_pc = "loop"
    /\ c_idx = Len(CodecLines)
    /\ c_pc' = "done"
    /\ UNCHANGED <<c_text, c_idx, c_deps, c_failure, c_shown>>

(* the returned records are written with Display, one after the other *)
DisplayDep ==
    /\ c_pc = "done"
    /\ Len(c_shown) < Len(c_deps)
    /\ c_shown' = Append(c_shown, Display(c_deps[Len(c_shown) + 1]))
    /\ UNCHANGED <<c_pc, c_text, c_idx, c_deps, c_failure>>

----------------------------------------------------------------------------
(* src/src/bin/entrypoint.rs: the App component.  A text is a tuple whose   *)
(* first part tells what wrote it: <<"plain", lines>> is a text in the      *)
(* trace notation, one line per trace with its frequency; <<"xes", traces>> *)
(* is a document written by generate_xes; <<"matrix", ...>> is the text of  *)
(* process_xes_content; <<"error", ...>> is one of the messages of update.  *)

Line(trace, frequency) == [trace |-> trace, frequency |-> frequency]
PlainText(lines) == <<"plain", lines>>

(* what the user types into the textarea *)
TypedTexts ==
    {PlainText(<<>>),
     PlainText(<<Line(<<LabelA, LabelB>>, 2)>>),
     PlainText(<<Line(<<LabelA>>, 1), Line(<<>>, 1), Line(<<LabelB, LabelA>>, 1)>>)}

(* get_traces_with_frequencies: the lines with a trace that is not empty.   *)
(* A text that is not in the trace notation is read the same way, line by   *)
(* line; it is kept whole here, as the one activity of one trace.           *)
get_traces_with_frequencies(text) ==
    IF text[1] = "plain"
    THEN SelectSeq(text[2], LAMBDA line : line.trace # <<>>)
    ELSE <<Line(<<text>>, 1)>>

EVENT_INTERVAL == 1000

(* the events of one <trace>: concept:name and time:timestamp, the time in  *)
(* milliseconds after DateTime::<Utc>::default()                            *)
XesTrace(trace) == [k \in 1..Len(trace) |-> <<trace[k], k * EVENT_INTERVAL>>]

RECURSIVE Repeated(_, _)
Repeated(trace, frequency) ==
    IF frequency = 0 THEN <<>> ELSE <<trace>> \o Repeated(trace, frequency - 1)

RECURSIVE XesTraces(_)
XesTraces(traces_with_frequencies) ==
    IF traces_with_frequencies = <<>> THEN <<>>
    ELSE Repeated(XesTrace(Head(traces_with_frequencies).trace),
                  Head(traces_with_frequencies).frequency)
            \o XesTraces(Tail(traces_with_frequencies))

(* generate_xes: the <log> with every trace repeated frequency times *)
generate_xes(text) == <<"xes", XesTraces(get_traces_with_frequencies(text))>>

(* App::generate_xes_output: always Ok *)
generate_xes_output(st) == [outcome |-> "Ok", text |-> generate_xes(st.text)]

(* f64 values of the thresholds, in tenths; value.parse::<f64>() *)
ThresholdValues == {"0.5", "abc"}
ParseF64(value) == IF value = "0.5" THEN Some(5) ELSE None

(* What reading a file gives: an error of the reader, or the content.  The  *)
(* content is given by what parse_into_traces makes of it: an error, or the *)
(* traces.                                                                  *)
FileContents ==
    {<<"Err", "ParseError">>,
     <<"Ok", <<>>>>,
     <<"Ok", <<<<LabelA, LabelB>>, <<LabelA>>>>>>}
Files ==
    {<<"Err", "FileReaderError">>, <<"Err", "FileContentToStringError">>}
       \cup {<<"Ok", content>> : content \in FileContents}

(* App::process_xes_content.  With no trace, variants is empty and          *)
(* variants.values().max().unwrap() panics (line 299).                      *)
process_xes_content(st, content) ==
    IF content[1] = "Err" THEN [outcome |-> "Err", text |-> <<"error", "ParseError">>]
    ELSE IF content[2] = <<>> THEN [outcome |-> "panic", text |-> <<>>]
    ELSE LET number_of_activities ==
                 Cardinality(UNION {{content[2][t][k] : k \in DOMAIN content[2][t]} :
                                       t \in DOMAIN content[2]})
         IN  [outcome |-> "Ok",
              text |-> <<"matrix", content[2], st.existential_threshold,
                         st.temporal_threshold,
                         number_of_activities * number_of_activities>>]

(* Component::create *)
AppCreate ==
    /\ app_pc = "running"
    /\ state = [text |-> PlainText(<<>>), processed |-> FALSE,
                existential_threshold |-> 10, temporal_threshold |-> 10]
    /\ file_reader_closure = None
    /\ generated = None
    /\ downloaded = None

AppIdle ==
    /\ app_pc = "idle"
    /\ state = [text |-> PlainText(<<>>), processed |-> FALSE,
                existential_threshold |-> 10, temporal_threshold |-> 10]
    /\ file_reader_closure = None
    /\ generated = None
    /\ downloaded = None

(* Msg::TextInput(text), lines 102-106 *)
TextInput ==
    /\ app_pc = "running"
    /\ \E text \in TypedTexts :
          state' = [state EXCEPT !.text = text, !.processed = FALSE]
    /\ UNCHANGED <<app_pc, file_reader_closure, generated, downloaded>>

(* Msg::XESImport(file_option), lines 107-112, with load_xes_file: the new  *)
(* closure takes the place of the one before, whose read is then lost       *)
XESImport ==
    /\ app_pc = "running"
    /\ \E file_option \in {None} \cup {Some(file) : file \in Files} :
          file_reader_closure' =
             IF IsSome(file_option) THEN Some(Unwrap(file_option)) ELSE file_reader_closure
    /\ UNCHANGED <<app_pc, state, generated, downloaded>>

(* Msg::ExistentialThresholdInput(value), lines 113-118 *)
ExistentialThresholdInput ==
    /\ app_pc = "running"
    /\ \E value \in ThresholdValues :
          state' = IF IsSome(ParseF64(value))
                   THEN [state EXCEPT !.existential_threshold = Unwrap(ParseF64(value))]
                   ELSE state
    /\ UNCHANGED <<app_pc, file_reader_closure, generated, downloaded>>

(* Msg::TemporalThresholdInput(value), lines 119-124 *)
TemporalThresholdInput ==
    /\ app_pc = "running"
    /\ \E value \in ThresholdValues :
          state' = IF IsSome(ParseF64(value))
                   THEN [state EXCEPT !.temporal_threshold = Unwrap(ParseF64(value))]
                   ELSE state
    /\ UNCHANGED <<app_pc, file_reader_closure, generated, downloaded>>

(* Msg::XESLoaded(result), lines 125-140: sent once by the closure of the   *)
(* read in flight (or by load_xes_file when the read could not start)       *)
XESLoaded ==
    /\ app_pc = "running"
    /\ IsSome(file_reader_closure)
    /\ LET loaded == Unwrap(file_reader_closure)
           processed_text == process_xes_content(state, loaded[2])
       IN  IF loaded[1] = "Err"
           THEN /\ state' = [state EXCEPT
                               !.text = <<"error", "Error loading XES file", loaded[2]>>]
                /\ app_pc' = app_pc
           ELSE IF processed_text.outcome = "panic"
           THEN /\ state' = state
                /\ app_pc' = "panicked"
           ELSE IF processed_text.outcome = "Ok"
           THEN /\ state' = [state EXCEPT !.text = processed_text.text]
                /\ app_pc' = app_pc
           ELSE /\ state' = [state EXCEPT
                               !.text = <<"error", "Processing error", processed_text.text[2]>>]
                /\ app_pc' = app_pc
    /\ file_reader_closure' = None
    /\ UNCHANGED <<generated, downloaded>>

(* Msg::ConvertToXES, lines 141-152.  The button that sends it is disabled  *)
(* while processed is set (view, line 232).                                 *)
ConvertToXES ==
    /\ app_pc = "running"
    /\ ~state.processed
    /\ LET xes_text == generate_xes_output(state)
       IN  IF xes_text.outcome = "Ok"
           THEN /\ state' = [state EXCEPT !.text = xes_text.text, !.processed = TRUE]
                /\ generated' = Some(xes_text.text)
           ELSE /\ state' = [state EXCEPT !.text = <<"error", "Conversion to XES failed">>]
                /\ UNCHANGED generated
    /\ UNCHANGED <<app_pc, file_reader_closure, downloaded>>

(* how download_xes can end: Ok after the click, an error before the click  *)
(* (window, document, Blob, URL, anchor), an error after it (revoke)        *)
DownloadOutcomes == {"Ok", "ErrBeforeClick", "ErrAfterClick"}

(* Msg::DownloadXES, lines 153-160.  The button that sends it is disabled   *)
(* unless processed is set (view, line 235).                                *)
DownloadXES ==
    /\ app_pc = "running"
    /\ state.processed
    /\ \E outcome \in DownloadOutcomes :
          /\ downloaded' = IF state.processed /\ outcome # "ErrBeforeClick"
                           THEN Some(state.text) ELSE downloaded
          /\ state' = IF state.processed /\ outcome # "Ok"
                      THEN [state EXCEPT !.text = <<"error", "Download error">>]
                      ELSE state
    /\ UNCHANGED <<app_pc, file_reader_closure, generated>>

----------------------------------------------------------------------------
(* The specifications: one component runs, the others stay idle. *)

EpaInit ==
    /\ EpaStart /\ oracle = [seed |-> 0, stride |-> 1] /\ calls = <<>>
    /\ MatrixIdle /\ EvalIdle /\ CodecIdle /\ AppIdle
EpaNext == BuildStep /\ UNCHANGED <<oracle, calls, matrix_vars, eval_vars, codec_vars, app_vars>>
SpecEpa == EpaInit /\ [][EpaNext]_vars

MatrixInit ==
    /\ MatrixStart /\ oracle \in Oracles /\ calls = <<>>
    /\ EpaIdle /\ EvalIdle /\ CodecIdle /\ AppIdle
MatrixNext ==
    \/ MatrixSetup /\ UNCHANGED <<oracle, epa_vars, eval_vars, codec_vars, app_vars>>
    \/ ClassifyPair /\ UNCHANGED <<oracle, epa_vars, eval_vars, codec_vars, app_vars>>
    \/ DiagonalCell /\ UNCHANGED <<oracle, epa_vars, eval_vars, codec_vars, app_vars>>
    \/ MatrixReturn /\ UNCHANGED <<oracle, epa_vars, eval_vars, codec_vars, app_vars>>
SpecMatrix == MatrixInit /\ [][MatrixNext]_vars

EvalInit ==
    /\ EvalStart /\ oracle \in EvalOracles /\ calls = <<>>
    /\ EpaIdle /\ MatrixIdle /\ CodecIdle /\ AppIdle
EvalNext ==
    \/ CapacityPanics /\ UNCHANGED <<oracle, epa_vars, matrix_vars, codec_vars, app_vars>>
    \/ CapacityComputed /\ UNCHANGED <<oracle, epa_vars, matrix_vars, codec_vars, app_vars>>
    \/ CollectAdjMatrix /\ UNCHANGED <<oracle, epa_vars, matrix_vars, codec_vars, app_vars>>
    \/ SortAdjMatrix /\ UNCHANGED <<oracle, epa_vars, matrix_vars, codec_vars, app_vars>>
    \/ Deduplicate /\ UNCHANGED <<oracle, epa_vars, matrix_vars, codec_vars, app_vars>>
    \/ ScoreDep /\ UNCHANGED <<oracle, epa_vars, matrix_vars, codec_vars, app_vars>>
    \/ EvalReturn /\ UNCHANGED <<oracle, epa_vars, matrix_vars, codec_vars, app_vars>>
    \/ RenderResult /\ UNCHANGED <<oracle, epa_vars, matrix_vars, codec_vars, app_vars>>
SpecEval == EvalInit /\ [][EvalNext]_vars

CodecInit ==
    /\ CodecStart /\ oracle = [seed |-> 0, stride |-> 1] /\ calls = <<>>
    /\ EpaIdle /\ MatrixIdle /\ EvalIdle /\ AppIdle
CodecNext ==
    \/ SkipEmptyLine /\ UNCHANGED <<oracle, calls, epa_vars, matrix_vars, eval_vars, app_vars>>
    \/ ConvertLine /\ UNCHANGED <<oracle, calls, epa_vars, matrix_vars, eval_vars, app_vars>>
    \/ ConvertPanics /\ UNCHANGED <<oracle, calls, epa_vars, matrix_vars, eval_vars, app_vars>>
    \/ ConvertReturn /\ UNCHANGED <<oracle, calls, epa_vars, matrix_vars, eval_vars, app_vars>>
    \/ DisplayDep /\ UNCHANGED <<oracle, calls, epa_vars, matrix_vars, eval_vars, app_vars>>
SpecCodec == CodecInit /\ [][CodecNext]_vars

AppInit ==
    /\ AppCreate /\ oracle = [seed |-> 0, stride |-> 1] /\ calls = <<>>
    /\ EpaIdle /\ MatrixIdle /\ EvalIdle /\ CodecIdle
AppNext ==
    \/ TextInput /\ UNCHANGED <<oracle, calls, epa_vars, matrix_vars, eval_vars, codec_vars>>
    \/ XESImport /\ UNCHANGED <<oracle, calls, epa_vars, matrix_vars, eval_vars, codec_vars>>
    \/ ExistentialThresholdInput
         /\ UNCHANGED <<oracle, calls, epa_vars, matrix_vars, eval_vars, codec_vars>>
    \/ TemporalThresholdInput
         /\ UNCHANGED <<oracle, calls, epa_vars, matrix_vars, eval_vars, codec_vars>>
    \/ XESLoaded /\ UNCHANGED <<oracle, calls, epa_vars, matrix_vars, eval_vars, codec_vars>>
    \/ ConvertToXES /\ UNCHANGED <<oracle, calls, epa_vars, matrix_vars, eval_vars, codec_vars>>
    \/ DownloadXES /\ UNCHANGED <<oracle, calls, epa_vars, matrix_vars, eval_vars, codec_vars>>
SpecApp == AppInit /\ [][AppNext]_vars

(* the two callers of the classifiers: a run of the matrix builder or a run *)
(* of the evaluator                                                         *)
ClassifyInit == MatrixInit \/ EvalInit
ClassifyNext == MatrixNext \/ EvalNext
SpecClassify == ClassifyInit /\ [][ClassifyNext]_vars

----------------------------------------------------------------------------
(* Properties of the matrix builder (SpecMatrix) *)

RECURSIVE SumCounts(_)
SumCounts(counts) ==
    IF DOMAIN counts = {} THEN 0
    ELSE LET k == CHOOSE q \in DOMAIN counts : TRUE
         IN  counts[k] + SumCounts([q \in DOMAIN counts \ {k} |-> counts[q]])

(* the ordered pairs classified so far: the cells that hold a dependency *)
PairsProcessed == Cardinality({i \in 1..Len(output) : IsSome(output[i])})

\* C1: with k distinct activities the values of relationshipCounts sum to
\* k*k - k once all pairs are processed, and to n after n processed pairs.
C1_CountsSum ==
    /\ SumCounts(metrics.relationship_counts) = PairsProcessed
    /\ m_pc = "done" =>
          SumCounts(metrics.relationship_counts)
             = TotalActivities * TotalActivities - TotalActivities

\* a finished matrix over three activities in which one key was counted twice
C1_Witness ==
    /\ m_pc = "done"
    /\ TotalActivities = 3
    /\ \E k \in DOMAIN metrics.relationship_counts : metrics.relationship_counts[k] >= 2

\* C2: fullIndependences <= pureExistences in every state of the metrics
\* accumulator.
C2_FullWithinPure == metrics.full_independences <= metrics.pure_existences

\* updates of all three sorts happened: a full independence, a pair without
\* temporal but with an existential dependency, a pair with a temporal and
\* without an existential dependency
C2_Witness ==
    /\ metrics.full_independences >= 1
    /\ metrics.pure_existences > metrics.full_independences
    /\ \E i \in 1..Len(output) :
          /\ IsSome(output[i])
          /\ IsSome(Unwrap(output[i]).temporal_dependency)
          /\ ~IsSome(Unwrap(output[i]).existential_dependency)

(* the kinds of a classified pair, "none" for a dependency it does not have *)
TemporalKind(dependency) ==
    IF IsSome(dependency.temporal_dependency)
    THEN Unwrap(dependency.temporal_dependency).dependency_type ELSE "none"
ExistentialKind(dependency) ==
    IF IsSome(dependency.existential_dependency)
    THEN Unwrap(dependency.existential_dependency).dependency_type ELSE "none"

(* the key "(t, e)" of a pair of kinds, each kind under a name of its own *)
KindName(kind) ==
    CASE kind = "Direct" -> "direct"
      [] kind = "Eventual" -> "eventual"
      [] kind = "Implication" -> "implication"
      [] kind = "Equivalence" -> "equivalence"
      [] kind = "NegatedEquivalence" -> "negated equivalence"
      [] kind = "Nand" -> "nand"
      [] kind = "Or" -> "or"
      [] OTHER -> "none"
KeyOfKinds(t, e) == <<KindName(t), KindName(e)>>

(* the count of a key, 0 for a key that was never counted *)
CountOf(counts, key) == IF key \in DOMAIN counts THEN counts[key] ELSE 0

(* the pair classified by the step: the cell appended to output *)
ClassifiedPair == Unwrap(output'[Len(output')])

\* C25: for every ordered pair, MatrixMetrics::update increments exactly one
\* relationshipCounts entry, the one keyed by (t, e) where t is the pair's
\* own temporal kind (Direct, Eventual or none) and e is the pair's own
\* existential kind (Implication, Equivalence, NegatedEquivalence, Nand, Or
\* or none).
C25_OneEntryPerKinds ==
    [][(Len(output') = Len(output) + 1 /\ IsSome(output'[Len(output')])) =>
          LET key == KeyOfKinds(TemporalKind(ClassifiedPair), ExistentialKind(ClassifiedPair))
          IN  /\ CountOf(metrics'.relationship_counts, key)
                   = CountOf(metrics.relationship_counts, key) + 1
              /\ \A k \in DOMAIN metrics'.relationship_counts \ {key} :
                    CountOf(metrics'.relationship_counts, k)
                       = CountOf(metrics.relationship_counts, k)]_vars

(* the ordered pairs classified so far that have the kinds t and e *)
PairsOfKinds(t, e) ==
    Cardinality({i \in 1..Len(output) :
                    /\ IsSome(output[i])
                    /\ TemporalKind(Unwrap(output[i])) = t
                    /\ ExistentialKind(Unwrap(output[i])) = e})

\* C26: once the matrix is built (and after every pair on the way),
\* directEquivalences is the number of ordered pairs whose existential kind
\* is Equivalence and whose temporal kind is Direct, eventualEquivalences
\* the number of those with Equivalence and Eventual, and fullIndependences
\* the number of pairs with neither dependency; a pair with Equivalence and
\* no temporal kind is counted by neither equivalence counter.
C26_CountersMatchPairs ==
    /\ metrics.direct_equivalences = PairsOfKinds("Direct", "Equivalence")
    /\ metrics.eventual_equivalences = PairsOfKinds("Eventual", "Equivalence")
    /\ metrics.full_independences = PairsOfKinds("none", "none")

\* a finished matrix with a pair of Equivalence without temporal kind, and
\* with an equivalence and a full independence counted
C26_Witness ==
    /\ m_pc = "done"
    /\ PairsOfKinds("none", "Equivalence") >= 1
    /\ metrics.direct_equivalences + metrics.eventual_equivalences >= 1
    /\ metrics.full_independences >= 1

----------------------------------------------------------------------------
(* Properties of the evaluator (SpecEval) *)

EvalK == Cardinality(e_activities)
CanonicalBuilt == e_pc \in {"score", "done", "rendered"}

(* the canonical entries whose unordered pair is that of h *)
CanonicalMatches(h) ==
    {i \in 1..Len(adj_matrix_sorted) :
        {adj_matrix_sorted[i].from, adj_matrix_sorted[i].to} = {h.from, h.to}}

\* C3: with k distinct activities the canonical list has k*(k-1)/2 entries,
\* no two of them with the same unordered pair, so that every hypothesis
\* matches at most one canonical entry.
C3_CanonicalSize ==
    CanonicalBuilt =>
        /\ Len(adj_matrix_sorted) = (EvalK * (EvalK - 1)) \div 2
        /\ \A i, j \in 1..Len(adj_matrix_sorted) :
              {adj_matrix_sorted[i].from, adj_matrix_sorted[i].to}
                 = {adj_matrix_sorted[j].from, adj_matrix_sorted[j].to} => i = j
        /\ \A n \in 1..Len(deps) : Cardinality(CanonicalMatches(deps[n])) <= 1

\* three activities, three canonical entries, a hypothesis that has its match
C3_Witness ==
    /\ e_pc = "done"
    /\ EvalK = 3
    /\ Len(adj_matrix_sorted) = 3
    /\ \E n \in 1..Len(deps) : Cardinality(CanonicalMatches(deps[n])) = 1

(* what the oracle says of the pair {a, b}, in the order of the labels *)
OracleCanonical(a, b) ==
    LET lo == IF StrLess(a, b) THEN a ELSE b
        hi == IF StrLess(a, b) THEN b ELSE a
    IN  Dependency(lo, hi, check_temporal_dependency(oracle, lo, hi),
                   check_existential_dependency(oracle, lo, hi))

Scorable(h) == h.from # h.to /\ h.from \in e_activities /\ h.to \in e_activities

\* C4: the canonical list and the returned tuple depend on the log and the
\* hypotheses only, not on the order in which the activity set is iterated:
\* the list holds, ascending by (from, to), the pairs with from < to, each
\* with the oracle's answer for that orientation, and the tuple counts the
\* hypotheses that agree with those answers.
C4_OrderIndependent ==
    /\ CanonicalBuilt =>
          /\ \A i \in 1..Len(adj_matrix_sorted) :
                /\ StrLess(adj_matrix_sorted[i].from, adj_matrix_sorted[i].to)
                /\ adj_matrix_sorted[i]
                      = OracleCanonical(adj_matrix_sorted[i].from, adj_matrix_sorted[i].to)
          /\ \A i, j \in 1..Len(adj_matrix_sorted) :
                i < j =>
                   \/ StrLess(adj_matrix_sorted[i].from, adj_matrix_sorted[j].from)
                   \/ /\ adj_matrix_sorted[i].from = adj_matrix_sorted[j].from
                      /\ StrLess(adj_matrix_sorted[i].to, adj_matrix_sorted[j].to)
          /\ {<<adj_matrix_sorted[i].from, adj_matrix_sorted[i].to>> :
                 i \in 1..Len(adj_matrix_sorted)}
                = {p \in e_activities \X e_activities : StrLess(p[1], p[2])}
    /\ e_pc = "done" =>
          result = Some(<<
              Cardinality({n \in 1..Len(deps) :
                  Scorable(deps[n])
                    /\ TemporalCorrect(deps[n], OracleCanonical(deps[n].from, deps[n].to))}),
              Len(deps),
              Cardinality({n \in 1..Len(deps) :
                  Scorable(deps[n])
                    /\ ExistentialCorrect(deps[n], OracleCanonical(deps[n].from, deps[n].to))}),
              Len(deps)>>)

\* a finished run over three activities with two hypotheses, one of them right
C4_Witness ==
    /\ e_pc = "done"
    /\ EvalK = 3
    /\ Len(deps) = 2
    /\ Unwrap(result)[1] >= 1
    /\ Unwrap(result)[3] >= 1

SameKindAndDirection(a, b) ==
    \/ (~IsSome(a)) /\ ~IsSome(b)
    \/ /\ IsSome(a) /\ IsSome(b)
       /\ Unwrap(a).dependency_type = Unwrap(b).dependency_type
       /\ Unwrap(a).direction = Unwrap(b).direction

SymmetricKinds == {"Equivalence", "NegatedEquivalence", "Or"}

(* the existential scoring rule for a hypothesis record h and a canonical d *)
ExistentialRule(h, d) ==
    IF IsSome(h) /\ IsSome(d)
          /\ Unwrap(h).dependency_type = Unwrap(d).dependency_type
          /\ Unwrap(h).dependency_type \in SymmetricKinds
    THEN TRUE
    ELSE IF (~IsSome(h)) /\ ~IsSome(d)
    THEN TRUE
    ELSE /\ IsSome(h) /\ IsSome(d)
         /\ Unwrap(h).dependency_type = Unwrap(d).dependency_type
         /\ Unwrap(h).direction = Unwrap(d).direction
         /\ Unwrap(h).from = Unwrap(d).from
         /\ Unwrap(h).to = Unwrap(d).to

\* C11: a hypothesis h matched to the canonical dependency d is scored
\* existentially correct when both are Equivalence, both NegatedEquivalence or
\* both Or, whatever the directions, or when both are absent; in every other
\* case exactly when the two existential records agree in kind, direction
\* and endpoints.
C11_ExistentialScore ==
    [][(e_pc = "score" /\ dep_idx' = dep_idx + 1) =>
          \A i \in CanonicalMatches(deps[dep_idx + 1]) :
             /\ correct_existential' \in {correct_existential, correct_existential + 1}
             /\ (correct_existential' = correct_existential + 1)
                  <=> ExistentialRule(deps[dep_idx + 1].existential_dependency,
                                      adj_matrix_sorted[i].existential_dependency)]_vars

\* a matched hypothesis with an Equivalence of another direction than the
\* canonical one was scored existentially correct, and after it a matched
\* hypothesis with an Implication whose endpoints are reversed was not
C11_Witness ==
    /\ e_pc = "score"
    /\ dep_idx = 2
    /\ correct_existential = 1
    /\ \E i \in CanonicalMatches(deps[1]) :
          /\ IsSome(deps[1].existential_dependency)
          /\ IsSome(adj_matrix_sorted[i].existential_dependency)
          /\ Unwrap(deps[1].existential_dependency).dependency_type = "Equivalence"
          /\ Unwrap(adj_matrix_sorted[i].existential_dependency).dependency_type
                = "Equivalence"
          /\ Unwrap(deps[1].existential_dependency).direction
                # Unwrap(adj_matrix_sorted[i].existential_dependency).direction
    /\ \E i \in CanonicalMatches(deps[2]) :
          /\ IsSome(deps[2].existential_dependency)
          /\ IsSome(adj_matrix_sorted[i].existential_dependency)
          /\ Unwrap(deps[2].existential_dependency).dependency_type = "Implication"
          /\ Unwrap(adj_matrix_sorted[i].existential_dependency).dependency_type
                = "Implication"
          /\ Unwrap(deps[2].existential_dependency).direction
                = Unwrap(adj_matrix_sorted[i].existential_dependency).direction
          /\ Unwrap(deps[2].existential_dependency).from
                = Unwrap(adj_matrix_sorted[i].existential_dependency).to

\* C12: the returned totals are both the number of hypotheses, and a
\* hypothesis whose unordered pair has no canonical entry leaves both
\* correct counts as they were while it is counted in the totals.
C12_TotalsAndUnmatched ==
    [][/\ (e_pc = "score" /\ dep_idx' = dep_idx + 1
             /\ CanonicalMatches(deps[dep_idx + 1]) = {}) =>
            /\ correct_temporal' = correct_temporal
            /\ correct_existential' = correct_existential
       /\ (e_pc = "score" /\ e_pc' = "done") =>
            /\ IsSome(result')
            /\ Unwrap(result')[2] = Len(deps)
            /\ Unwrap(result')[4] = Len(deps)
            /\ Unwrap(result')[1] = correct_temporal
            /\ Unwrap(result')[3] = correct_existential
            /\ Unwrap(result')[1]
                  <= Cardinality({n \in 1..Len(deps) : CanonicalMatches(deps[n]) # {}})
            /\ Unwrap(result')[3]
                  <= Cardinality({n \in 1..Len(deps) : CanonicalMatches(deps[n]) # {}})]_vars

\* a finished run with canonical entries and two hypotheses: the first, of a
\* pair of one activity and without dependencies, has no canonical entry;
\* the second has one and was scored correct on an axis
C12_Witness ==
    /\ e_pc = "done"
    /\ Len(adj_matrix_sorted) >= 1
    /\ Len(deps) = 2
    /\ CanonicalMatches(deps[1]) = {}
    /\ ~IsSome(deps[1].temporal_dependency)
    /\ ~IsSome(deps[1].existential_dependency)
    /\ CanonicalMatches(deps[2]) # {}
    /\ result \in {Some(<<1, 2, 0, 2>>), Some(<<0, 2, 1, 2>>)}

\* C13: with no hypothesis the evaluation shows an explicit "no data"
\* outcome: no percentage is computed with a total of zero as the divisor.
C13_NoDataOutcome ==
    IsSome(rendered) =>
        /\ Unwrap(rendered).temporal.divisor # 0
        /\ Unwrap(rendered).existential.divisor # 0
        /\ Len(deps) = 0 =>
              /\ Unwrap(rendered).temporal.shown = "no data"
              /\ Unwrap(rendered).existential.shown = "no data"

\* C30: evaluate_deps completes for a log without activities: the capacity
\* computation activities.len() * (activities.len() - 1) does not underflow,
\* and the call returns (0, n, 0, n) for n hypothesis dependencies.
C30_CompletesWithoutActivities ==
    Cardinality(e_activities) = 0 =>
        /\ e_pc # "panicked"
        /\ e_pc \in {"done", "rendered"} =>
              result = Some(<<0, Len(deps), 0, Len(deps)>>)

(* what the call returns for such a log when the subtraction wraps *)
C30_WrappedResult ==
    (Cardinality(e_activities) = 0 /\ e_pc \in {"done", "rendered"}) =>
        result = Some(<<0, Len(deps), 0, Len(deps)>>)

----------------------------------------------------------------------------
(* Properties of the callers of the classifiers (SpecClassify) *)

Classifiers == {"check_temporal_dependency", "check_existential_dependency"}

(* one call of each classifier for every ordered pair of distinct members *)
CallsDue(activities) ==
    {<<f, p[1], p[2]>> : f \in Classifiers,
                         p \in {q \in activities \X activities : q[1] # q[2]}}

\* C19: in the matrix builder and in the evaluator each classifier is called
\* exactly once for every ordered pair (from, to) of distinct activities, and
\* never with from = to.
C19_ClassifiedOnce ==
    /\ \A call \in DOMAIN calls : calls[call] = 1 /\ call[2] # call[3]
    /\ m_pc = "done" => DOMAIN calls = CallsDue(m_activities)
    /\ m_pc \in {"start", "loop"} => DOMAIN calls \subseteq CallsDue(m_activities)
    /\ e_pc \in {"sort", "dedup", "score", "done", "rendered"} =>
          DOMAIN calls = CallsDue(e_activities)

\* the evaluator has classified the six ordered pairs of three activities
C19_Witness ==
    /\ e_pc = "sort"
    /\ EvalK = 3
    /\ Cardinality(DOMAIN calls) = 12
    /\ calls[<<"check_temporal_dependency", LabelB, LabelA>>] = 1

----------------------------------------------------------------------------
(* Properties of the notation (SpecCodec) *)

(* the notation's table of codes *)
TemporalKindOf(code) == IF code = <<"d">> THEN "Direct" ELSE "Eventual"
DirectionOf(code) == IF code = <<"f">> THEN "Forward" ELSE "Backward"
ExistentialKindOf(code) ==
    CASE code = <<"i">> -> "Implication"
      [] code = <<"e">> -> "Equivalence"
      [] code = <<"n", "e">> -> "NegatedEquivalence"
      [] code = <<"n">> -> "Nand"
      [] code = <<"o">> -> "Or"

(* the parts a line of the layout is written from: the p with LineOf(p) = line *)
IsWrittenFrom(line, p) == line # <<>> /\ LineOf(p) = line
PartsOf(line) == Split(line, {Comma, Colon, Space})
NonEmptyLines == SelectSeq(CodecLines, LAMBDA l : l # <<>>)
AtLine == c_pc = "loop" /\ c_idx < Len(CodecLines)

\* C14: decoding a malformed line (an unrecognized code or direction token, a
\* missing part) ends in a recoverable error that names the part, and
\* convert_to_dependencies does not abort because of it.
C14_RecoverableDecodeError ==
    /\ c_pc # "panicked"
    /\ IsSome(c_failure) =>
          /\ Unwrap(c_failure).outcome = "Err"
          /\ Unwrap(c_failure).message # ""

\* C15: a line with an existential code among i, e, ne, n, o and no
\* existential direction token decodes, and its existential dependency is of
\* that kind with direction Both.
C15_MissingDirectionIsBoth ==
    [][\A p \in (IF AtLine THEN {PartsOf(CurrentLine)} ELSE {}) :
          (/\ IsWrittenFrom(CurrentLine, p)
           /\ Len(p) = 5
           /\ p[3] \in TemporalCodes \cup {<<Dash>>}
           /\ p[4] \in DirectionCodes \cup {<<Dash>>}
           /\ p[5] \in ExistentialCodes) =>
              /\ Len(c_deps') = Len(c_deps) + 1
              /\ c_deps'[Len(c_deps')].existential_dependency
                    = Some(ExistentialDependency(p[1], p[2], ExistentialKindOf(p[5]),
                                                 "Both"))]_vars

\* the line a,b:d,f n was decoded to a Nand with direction Both
C15_Witness ==
    /\ c_idx = 1
    /\ CodecLines[1] = <<"a", Comma, "b", Colon, "d", Comma, "f", Space, "n">>
    /\ Len(c_deps) = 1
    /\ c_deps[1].existential_dependency
          = Some(ExistentialDependency(<<"a">>, <<"b">>, "Nand", "Both"))

(* what the notation's table says of the parts p of a line *)
TableTemporal(p) ==
    IF p[3] = <<Dash>> THEN None
    ELSE Some(TemporalDependency(p[1], p[2], TemporalKindOf(p[3]), DirectionOf(p[4])))
TableExistential(p) ==
    IF p[5] = <<Dash>> THEN None
    ELSE Some(ExistentialDependency(p[1], p[2], ExistentialKindOf(p[5]),
                                    DirectionOf(p[6])))

\* C16: convert_to_dependencies returns one record per non-empty line, in
\* the order of the lines; the record's from and to are the line's first two
\* parts, a temporal code d or e with a direction f or b gives the temporal
\* dependency of that kind and direction, an existential code i, e, ne, n or
\* o with a direction f or b the existential dependency of that kind and
\* direction, both with the record's from and to, and a code - gives none.
C16_OneRecordPerLine ==
    [][/\ (c_pc = "loop" /\ c_pc' = "done") =>
             /\ Len(c_deps) = Len(NonEmptyLines)
             /\ \A i \in 1..Len(c_deps) :
                   c_deps[i] = Unwrap(from_str(NonEmptyLines[i]).dep)
       /\ (AtLine /\ CurrentLine = <<>>) => c_deps' = c_deps
       /\ \A p \in (IF AtLine THEN {PartsOf(CurrentLine)} ELSE {}) :
             (IsWrittenFrom(CurrentLine, p) /\ c_idx' = c_idx + 1) =>
                /\ Len(c_deps') = Len(c_deps) + 1
                /\ SubSeq(c_deps', 1, Len(c_deps)) = c_deps
                /\ c_deps'[Len(c_deps')].from = p[1]
                /\ c_deps'[Len(c_deps')].to = p[2]
                /\ (p[3] = <<Dash>> \/ (p[3] \in TemporalCodes /\ p[4] \in DirectionCodes)) =>
                      c_deps'[Len(c_deps')].temporal_dependency = TableTemporal(p)
                /\ (p[5] = <<Dash>>
                      \/ (p[5] \in ExistentialCodes /\ Len(p) = 6 /\ p[6] \in DirectionCodes)) =>
                      c_deps'[Len(c_deps')].existential_dependency = TableExistential(p)]_vars

\* the text of the lines a,b:d,f i,b and a,c:e,f e was converted to two records
C16_Witness ==
    /\ c_pc = "done"
    /\ Len(c_deps) = 2
    /\ c_deps[1] = Dependency(<<"a">>, <<"b">>,
                      Some(TemporalDependency(<<"a">>, <<"b">>, "Direct", "Forward")),
                      Some(ExistentialDependency(<<"a">>, <<"b">>, "Implication",
                                                 "Backward")))
    /\ c_deps[2].to = <<"c">>
    /\ IsSome(c_deps[2].temporal_dependency)

\* C17: a line whose temporal code is d or e and whose temporal direction is
\* -, or whose temporal code is - and whose direction is f or b, is not
\* decoded to a record.
C17_DashOnlyWithDash ==
    [][\A p \in (IF AtLine THEN {PartsOf(CurrentLine)} ELSE {}) :
          (/\ IsWrittenFrom(CurrentLine, p)
           /\ Len(p) >= 4
           /\ \/ p[3] \in TemporalCodes /\ p[4] = <<Dash>>
              \/ p[3] = <<Dash>> /\ p[4] \in DirectionCodes) =>
              c_deps' = c_deps]_vars

(* the lines of the notation: a temporal code with its direction or - with  *)
(* -, an existential code or -, and an existential direction or none        *)
WellFormed(line) ==
    LET p == PartsOf(line)
    IN  /\ IsWrittenFrom(line, p)
        /\ Len(p) \in {5, 6}
        /\ \/ p[3] \in TemporalCodes /\ p[4] \in DirectionCodes
           \/ p[3] = <<Dash>> /\ p[4] = <<Dash>>
        /\ p[5] \in ExistentialCodes \cup {<<Dash>>}
        /\ Len(p) = 6 => p[6] \in DirectionCodes \cup {<<Dash>>}

SameKindsAndDirections(a, b) ==
    /\ SameKindAndDirection(a.temporal_dependency, b.temporal_dependency)
    /\ SameKindAndDirection(a.existential_dependency, b.existential_dependency)

(* the line of the notation that has the written record after its from, to *)
Rewritten(dep, shown) == dep.from \o <<Comma>> \o dep.to \o <<Colon>> \o shown

\* C18: the record decoded from a well-formed line, written again and read
\* again, has the same temporal and existential kinds and directions; an
\* existential dependency with direction Both is written without direction
\* token, and that is read as Both.
C18_RoundTrip ==
    \A i \in 1..Len(c_shown) :
        WellFormed(NonEmptyLines[i]) =>
            LET again == from_str(Rewritten(c_deps[i], c_shown[i]))
            IN  /\ again.outcome = "Ok"
                /\ SameKindsAndDirections(Unwrap(again.dep), c_deps[i])
                /\ (/\ IsSome(c_deps[i].existential_dependency)
                    /\ Unwrap(c_deps[i].existential_dependency).direction = "Both") =>
                       LET parts == Split(c_shown[i], {Comma})
                       IN  parts[Len(parts)] \in ExistentialCodes

----------------------------------------------------------------------------
(* Properties of the prefix automaton (SpecEpa) *)

IsScenarioRun == plain_log = ScenarioLog

\* C5: after any sequence of events processed by build, at most one
\* transition leaves any source state on any activity label.
C5_DeterministicTransitions ==
    \A i, j \in 1..Len(epa.transitions) :
        (epa.transitions[i][1] = epa.transitions[j][1]
            /\ epa.transitions[i][2] = epa.transitions[j][2]) => i = j

\* a run in which an event followed a transition that already existed
C5_Witness == pos >= 2 /\ Len(epa.transitions) < pos /\ Len(epa.transitions) >= 1

\* C6 as stated: for the log [[A,B],[A,B],[A,C]] the partition histogram has
\* exactly two classes of size 1 each and the baseline state count S is 2.
C6_AsStated ==
    (IsScenarioRun /\ BuildDone) =>
        /\ Cardinality(DOMAIN PartitionSizes(epa)) = 2
        /\ \A p \in DOMAIN PartitionSizes(epa) : PartitionSizes(epa)[p] = 1
        /\ Baseline(StateCount(epa)) = 2

\* C6 amended: for the log [[A,B],[A,B],[A,C]] the partition histogram has
\* exactly two classes, partition 1 of size 2 (the states of A and A.B) and
\* partition 2 of size 1 (the state of A.C), and the baseline S is 3.
C6_ScenarioHistogram ==
    (IsScenarioRun /\ BuildDone) =>
        /\ PartitionSizes(epa) = (1 :> 2 @@ 2 :> 1)
        /\ Baseline(StateCount(epa)) = 3

C6_Witness ==
    IsScenarioRun /\ BuildDone /\ NormalizedVariantEntropy(epa).divided

\* C7: for the log [[A,B],[A,B],[A,C]] build yields exactly 3 non-root
\* states; one state for A is reached from root by all three traces, exactly
\* two transitions leave it, labelled B and C, and the second trace follows
\* the existing A->B transition without creating a state.
C7_ScenarioShape ==
    IsScenarioRun =>
        /\ \A c \in DOMAIN last_at :
              (pos = 2 * c - 1) => last_at[c] = NewStateId(1)
        /\ (pos >= 2 /\ pos <= 5) =>
              (StateCount(epa) = 3
                 /\ epa.transitions = << <<Root, 1, NewStateId(1)>>,
                                         <<NewStateId(1), 2, NewStateId(2)>> >>)
        /\ BuildDone =>
              /\ StateCount(epa) - 1 = 3
              /\ epa.transitions = << <<Root, 1, NewStateId(1)>>,
                                      <<NewStateId(1), 2, NewStateId(2)>>,
                                      <<NewStateId(1), 3, NewStateId(3)>> >>
              /\ {epa.transitions[i][2] :
                     i \in {j \in 1..Len(epa.transitions) :
                               epa.transitions[j][1] = NewStateId(1)}} = {2, 3}

C7_Witness ==
    IsScenarioRun /\ BuildDone /\ Len(epa.transitions) = 3 /\ DOMAIN last_at = {1, 2, 3}

\* C8: normalized_variant_entropy returns 0 without dividing for every
\* automaton with at most one state beyond the root, the root-only one
\* included.
C8_ZeroWithoutDivision ==
    (StateCount(epa) - 1 <= 1) => ~NormalizedVariantEntropy(epa).divided

C8_Witness == StateCount(epa) = 2 /\ pos >= 1

\* C9: for every automaton with at least 2 states beyond the root,
\* normalizedVariantEntropy lies in [0, 1].
C9_UnitInterval ==
    (StateCount(epa) - 1 >= 2) =>
        /\ NonNegative(NormalizedVariantEntropy(epa))
        /\ AtMostOne(NormalizedVariantEntropy(epa))

\* two classes or more: the value is strictly positive
C9_Witness ==
    /\ StateCount(epa) - 1 >= 2
    /\ NormalizedVariantEntropy(epa).divided
    /\ NormalizedVariantEntropy(epa).den < NormalizedVariantEntropy(epa).num
(* the partition ids of the states of an automaton *)
PartitionIds(a) ==
    {Unwrap(a.states[s].partition) : s \in {t \in DOMAIN a.states : IsSome(a.states[t].partition)}}

(* the source of the transition that was pushed last *)
LastSource(a) == a.transitions[Len(a.transitions)][1]

\* C20: whenever build creates a state from a source that is not the root
\* and already has an outgoing transition, the partition id of the new state
\* is the largest partition id of the states there were, plus one, which is
\* the id of no state there was.
C20_BranchOpensFreshPartition ==
    [][\A new \in DOMAIN epa'.states \ DOMAIN epa.states :
          (/\ LastSource(epa') # epa.root
           /\ \E i \in 1..Len(epa.transitions) :
                 epa.transitions[i][1] = LastSource(epa')) =>
              /\ epa'.states[new].partition = Some(SetMax(PartitionIds(epa)) + 1)
              /\ Unwrap(epa'.states[new].partition) \notin PartitionIds(epa)]_vars

\* two transitions leave one state that is not the root, and the target of
\* the later one has a larger partition id than every state created before it
C20_Witness ==
    \E i, j \in 1..Len(epa.transitions) :
        /\ i < j
        /\ epa.transitions[i][1] = epa.transitions[j][1]
        /\ epa.transitions[i][1] # epa.root
        /\ \A s \in DOMAIN epa.states :
              (IsSome(epa.states[s].partition) /\ s < epa.transitions[j][3]) =>
                 Unwrap(epa.states[s].partition)
                    < Unwrap(epa.states[epa.transitions[j][3]].partition)


(* the event that the next iteration of build's loop processes *)
NextEvent == Events[pos + 1]

(* the state the next event is applied from, read off last_at as line 45 does *)
SourceOfNext ==
    IF IsSome(NextEvent.predecessor) /\ Unwrap(NextEvent.predecessor) \in DOMAIN last_at
    THEN last_at[Unwrap(NextEvent.predecessor)]
    ELSE epa.root

(* the transitions of an automaton that leave source, as indices *)
Leaving(a, source) == {i \in 1..Len(a.transitions) : a.transitions[i][1] = source}

\* C21: every state that build creates directly from the root gets
\* partition id 1, also when the root already has other outgoing transitions.
C21_RootChildrenInPartitionOne ==
    [][\A new \in DOMAIN epa'.states \ DOMAIN epa.states :
          LastSource(epa') = epa.root => epa'.states[new].partition = Some(1)]_vars

\* two transitions leave the root, and both their targets are in partition 1
C21_Witness ==
    \E i, j \in Leaving(epa, epa.root) :
        /\ i < j
        /\ epa.states[epa.transitions[i][3]].partition = Some(1)
        /\ epa.states[epa.transitions[j][3]].partition = Some(1)

(* the log is as process_xes_content builds it: the events of trace t have  *)
(* the case of t, and all but the first have it as their predecessor        *)
IsParsedLog ==
    \A t \in DOMAIN plain_log : \A k \in DOMAIN plain_log[t] :
        /\ plain_log[t][k].case = CaseName(t - 1)
        /\ plain_log[t][k].predecessor = (IF k - 1 > 0 THEN Some(CaseName(t - 1)) ELSE None)

(* such a log of one trace *)
IsSingleTrace == Len(plain_log) = 1 /\ IsParsedLog

\* C22: a state that build creates from a source that is not the root and
\* has no outgoing transition yet gets the partition id of the source; so
\* after every step on a log of one trace all states but the root are in
\* partition 1.
C22_ChainKeepsPartition ==
    [][/\ \A new \in DOMAIN epa'.states \ DOMAIN epa.states :
             (LastSource(epa') # epa.root /\ Leaving(epa, LastSource(epa')) = {}) =>
                 /\ IsSome(epa.states[LastSource(epa')].partition)
                 /\ epa'.states[new].partition = epa.states[LastSource(epa')].partition
       /\ IsSingleTrace =>
              \A s \in DOMAIN epa'.states \ {epa'.root} : epa'.states[s].partition = Some(1)]_vars

\* a log of one trace of two events is built: the second state was created
\* from the first and is in partition 1 like it
C22_Witness ==
    /\ IsSingleTrace
    /\ BuildDone
    /\ Len(epa.transitions) = 2
    /\ epa.transitions[2][1] = epa.transitions[1][3]
    /\ epa.states[epa.transitions[2][3]].partition = Some(1)
    /\ epa.states[epa.transitions[1][3]].partition = Some(1)

(* cases of a parsed log whose traces are the same sequence of activities *)
SameTrace(c1, c2) ==
    \E t1, t2 \in 1..Len(plain_log) :
        /\ plain_log[t1] # <<>> /\ plain_log[t2] # <<>>
        /\ plain_log[t1][1].case = c1 /\ plain_log[t2][1].case = c2
        /\ [k \in DOMAIN plain_log[t1] |-> plain_log[t1][k].activity]
             = [k \in DOMAIN plain_log[t2] |-> plain_log[t2][k].activity]


\* C23: when a transition leaves the state an event is applied from on the
\* event's activity, build follows it: no state and no transition is added,
\* no partition id changes, the event is recorded in the event set of the
\* transition's target, and the case's position becomes that target; so two
\* cases of a log with the same trace end at the same state.
C23_FollowsExistingTransition ==
    [][/\ \A i \in (IF pos < Len(Events) THEN Leaving(epa, SourceOfNext) ELSE {}) :
             epa.transitions[i][2] = NextEvent.activity =>
                /\ DOMAIN epa'.states = DOMAIN epa.states
                /\ epa'.transitions = epa.transitions
                /\ \A s \in DOMAIN epa.states :
                      epa'.states[s].partition = epa.states[s].partition
                /\ NextEvent \in epa'.states[epa.transitions[i][3]].sequences
                /\ last_at'[NextEvent.case] = epa.transitions[i][3]
       /\ (IsParsedLog /\ pos' = Len(Events)) =>
              \A c1, c2 \in DOMAIN last_at' :
                  SameTrace(c1, c2) => last_at'[c1] = last_at'[c2]]_vars

\* two cases with the same trace were built: the second followed the
\* transitions of the first, and both are recorded at the state they share
C23_Witness ==
    /\ IsParsedLog
    /\ BuildDone
    /\ \E c1, c2 \in DOMAIN last_at :
          /\ c1 # c2
          /\ SameTrace(c1, c2)
          /\ last_at[c1] = last_at[c2]
          /\ {e.case : e \in epa.states[last_at[c1]].sequences} = {c1, c2}
          /\ Len(epa.transitions) = Len(plain_log[1])
    /\ Len(epa.transitions) = 2


(* the state the case of the next event reached with its previous           *)
(* occurrence, the root when it has none                                    *)
CasePosition ==
    IF NextEvent.case \in DOMAIN last_at THEN last_at[NextEvent.case] ELSE epa.root

(* the step applied its event from state source: the transition into the    *)
(* state the event ended in leaves source on the event's activity           *)
AppliedFrom(source) ==
    \E i \in 1..Len(epa'.transitions) :
        epa'.transitions[i] = <<source, NextEvent.activity, last_at'[NextEvent.case]>>

\* C24: for every input list of events, build applies every (case, activity)
\* occurrence from the state that the same case reached with its previous
\* occurrence, and from the root exactly when it is that case's first
\* occurrence.
C24_AppliedFromCasePosition ==
    [][pos < Len(Events) =>
          /\ AppliedFrom(CasePosition)
          /\ \A source \in DOMAIN epa.states : AppliedFrom(source) => source = CasePosition]_vars

\* the same, for the logs that process_xes_content builds only
C24_OnParsedLogs ==
    [][(IsParsedLog /\ pos < Len(Events)) =>
          /\ AppliedFrom(CasePosition)
          /\ \A source \in DOMAIN epa.states : AppliedFrom(source) => source = CasePosition]_vars


(* the transitions of an automaton that enter target, as indices *)
Entering(a, target) == {i \in 1..Len(a.transitions) : a.transitions[i][3] = target}

\* C27: after any sequence of events processed by build the automaton is a
\* tree rooted at root: no transition enters the root, every other state is
\* entered by exactly one transition (so the ids given to new states are
\* pairwise distinct), every transition joins two states, there is one
\* transition less than there are states, and the position of every case is
\* a state of the automaton.
C27_TreeRootedAtRoot ==
    /\ epa.root \in DOMAIN epa.states
    /\ Entering(epa, epa.root) = {}
    /\ \A s \in DOMAIN epa.states \ {epa.root} : Cardinality(Entering(epa, s)) = 1
    /\ \A i \in 1..Len(epa.transitions) :
          epa.transitions[i][1] \in DOMAIN epa.states
             /\ epa.transitions[i][3] \in DOMAIN epa.states
    /\ Len(epa.transitions) = StateCount(epa) - 1
    /\ \A c \in DOMAIN last_at : last_at[c] \in DOMAIN epa.states

\* a tree with a branch below the root, built by two cases that shared their
\* first transition and stand at different leaves
C27_Witness ==
    /\ BuildDone
    /\ StateCount(epa) = 4
    /\ Len(epa.transitions) < pos
    /\ \E s \in DOMAIN epa.states \ {epa.root} : Cardinality(Leaving(epa, s)) = 2
    /\ \E c1, c2 \in DOMAIN last_at : last_at[c1] # last_at[c2]

\* C28: in every automaton that build produces the root is the only state
\* without partition id, every other state has a partition id of at least 1,
\* and the partition sizes sum to the number of states other than the root,
\* which is the baseline S of variant_entropy and normalized_variant_entropy
\* whenever there is such a state.
C28_PartitionsCoverNonRoot ==
    /\ \A s \in DOMAIN epa.states :
          IF s = epa.root THEN epa.states[s].partition = None
          ELSE IsSome(epa.states[s].partition) /\ Unwrap(epa.states[s].partition) >= 1
    /\ SumCounts(PartitionSizes(epa)) = StateCount(epa) - 1
    /\ StateCount(epa) - 1 >= 1 => Baseline(StateCount(epa)) = StateCount(epa) - 1

\* a finished automaton of three states beyond the root in two partitions
C28_Witness ==
    /\ BuildDone
    /\ StateCount(epa) - 1 = 3
    /\ Cardinality(DOMAIN PartitionSizes(epa)) = 2
    /\ Baseline(StateCount(epa)) = 3


----------------------------------------------------------------------------
(* Properties of the App component (SpecApp) *)

\* C29: after any sequence of messages, processed = true implies that
\* state.text is the output of the most recent ConvertToXES, not replaced
\* since; so DownloadXES only ever downloads generated XES text.
C29_ProcessedTextIsGenerated ==
    /\ state.processed => (IsSome(generated) /\ state.text = Unwrap(generated))
    /\ IsSome(downloaded) => Unwrap(downloaded)[1] = "xes"

====
